---- MODULE Spec2Model ----
(***************************************************************************)
(* Model of the Ricochet rendering core: the recursive node renderer `r`   *)
(* (src/index.ts), range destruction (src/internal/index.ts) and the       *)
(* observable array with its rendering and mirroring observers             *)
(* (src/array.ts).                                                         *)
(*                                                                         *)
(* The document is one container element whose children are the sequence   *)
(* `dom` of node identities.  A NodeRef ([Node]) is a cell of `cell`; the    *)
(* value 0 stands for undefined / null.                                    *)
(***************************************************************************)
EXTENDS Integers, Sequences, FiniteSets, TLC

VARIABLES
  dom,      \* children of the container, in document order (node ids)
  cell,     \* NodeRef heap: cell[c] is the node held by NodeRef c, or Undef
  nodes,    \* every node ever created: text, subscriptions field, teardown counters
  err,      \* TRUE once an exception propagated out of the running call
  subs,     \* the renderChild closures created by r, in creation order
  cur,      \* cur[o]: the current value of observable o
  lists,    \* the observable arrays: backing data, observers, counters
  locks,    \* locks[l]: the `locked` flag of MutualRecursionLock l
  rn,       \* renderedNodes of the rendered list (NodeRef ids)
  fp,       \* firstPrev of the rendered list
  ln,       \* lastNext of the rendered list
  last,     \* the latest call made by the driver
  dom0,     \* the container's children right after the initial render
  input,    \* the NestedNode handed to render()
  pc,       \* position of the driver: "start" before the call, "done" after it
  steps,    \* number of calls made after the initial render
  tdz,      \* the build keeps `const` block-scoped: reading a binding before
            \* its initialisation throws instead of yielding undefined
  rx,       \* two subjects, the compute and the combine observable built on them
  mounted,  \* what mount() returned, and the closure of the callback it registered
  owned     \* the `subscriptions` array handed to render, entry by entry

vars == <<dom, cell, nodes, err, subs, cur, lists, locks, rn, fp, ln, last, dom0,
          input, pc, steps, tdz, rx, mounted, owned>>

\* ---------------------------------------------------------------- bounds
NumEl == 2         \* element nodes available as literal values
MaxWidth == 2      \* length of the outer Sequence handed to render()
MaxInner == 2      \* length of a Sequence nested in it
MaxDeep == 1       \* length of a Sequence nested two levels down
MaxEmits == 2      \* emissions after the initial render
MaxEmitLen == 2    \* length of an emitted Sequence
MaxOps == 2        \* list mutations after construction
MaxLen == 3        \* length a list may grow to
MaxItems == 1      \* items passed to one push, unshift or splice
Prims == {7}       \* primitive values that may be rendered as text

\* ---------------------------------------------------------------- values
Undef == 0

\* NestedNode values (src/index.ts:114), as records of one shape.
Nil == [t |-> "nil", n |-> 0, a |-> <<>>]
El(n) == [t |-> "el", n |-> n, a |-> <<>>]
Txt(p) == [t |-> "txt", n |-> p, a |-> <<>>]
Arr(s) == [t |-> "arr", n |-> 0, a |-> s]
Obs(o) == [t |-> "obs", n |-> o, a |-> <<>>]
\* constant(v) (src/reactive.ts:150): emits v once, then completes
Const(v) == [t |-> "const", n |-> 0, a |-> <<v>>]
\* a BuiltinObservable that completed before it is rendered
Done == [t |-> "done", n |-> 0, a |-> <<>>]

\* ---------------------------------------------------------------- sequences
IndexOf(s, x) == IF \E i \in 1..Len(s) : s[i] = x
                 THEN CHOOSE i \in 1..Len(s) : s[i] = x /\ \A j \in 1..(i-1) : s[j] # x
                 ELSE 0

Without(s, x) == SelectSeq(s, LAMBDA y : y # x)

InsertAt(s, i, x) == SubSeq(s, 1, i - 1) \o <<x>> \o SubSeq(s, i, Len(s))

Range(s) == {s[i] : i \in 1..Len(s)}

\* ---------------------------------------------------------------- world
\* The mutable state threaded through one synchronous call.
\* mount() was not called: nothing returned, no element remembered in
\* `rendered`, no callback registered on the node
NotMounted == [ret |-> "", rendered |-> Undef, cb |-> FALSE]

\* `el === undefined`: the parent handed to render is undefined
NoParent == <<Undef>>

World == [dom |-> dom, cell |-> cell, nodes |-> nodes, err |-> err,
          subs |-> subs, cur |-> cur, lists |-> lists, locks |-> locks,
          rn |-> rn, fp |-> fp, ln |-> ln, tdz |-> tdz, owned |-> owned]

Throw(w) == [w EXCEPT !.err = TRUE]

\* statement sequencing: what follows a call runs on the state the call
\* left, and not at all once an exception is being thrown
Then(w, K(_)) == IF w.err THEN w ELSE K(w)
Let(x, K(_)) == K(x)

\* `[undefined] as NodeRef`
NewCell(w) == [w EXCEPT !.cell = Append(@, Undef)]
LastCell(w) == Len(w.cell)

SetCell(w, c, v) == [w EXCEPT !.cell[c] = v]

\* `new Text(...)` / `document.createElement`: a node with no `subscriptions` field
NewNode(w, text, hsub) ==
  [w EXCEPT !.nodes = Append(@, [text |-> text, hsub |-> hsub, fired |-> 0, dcalls |-> 0,
                                 disposeImplicitly |-> FALSE])]
LastNode(w) == Len(w.nodes)

\* DOM accessors
Attached(w, n) == n \in Range(w.dom)
previousSibling(w, n) ==
  LET i == IndexOf(w.dom, n) IN IF i > 1 THEN w.dom[i - 1] ELSE Undef
nextSibling(w, n) ==
  LET i == IndexOf(w.dom, n) IN IF i > 0 /\ i < Len(w.dom) THEN w.dom[i + 1] ELSE Undef
lastChild(w) == IF Len(w.dom) = 0 THEN Undef ELSE w.dom[Len(w.dom)]

\* Node.insertBefore(node, ref) on the container
insertBefore(w, n, ref) ==
  IF w.dom = NoParent THEN Throw(w)
  ELSE IF ref # Undef /\ ~Attached(w, ref) THEN Throw(w)
  ELSE IF ref = n THEN w
  ELSE LET d == Without(w.dom, n) IN
       IF ref = Undef THEN [w EXCEPT !.dom = Append(d, n)]
       ELSE [w EXCEPT !.dom = InsertAt(d, IndexOf(d, ref), n)]

\* ---------------------------------------------------------------- destroy
\* destroy(node, remove): detach, then release subscriptions and notify.
destroy(w, n, remove) ==
  IF w.err THEN w
  ELSE IF n = Undef THEN Throw(w)
  ELSE LET w1 == IF remove THEN [w EXCEPT !.dom = Without(@, n)] ELSE w
           w2 == [w1 EXCEPT !.nodes[n].dcalls = @ + 1] IN
       IF ~w2.nodes[n].hsub THEN w2
       ELSE [w2 EXCEPT !.nodes[n].fired = @ + 1]

RECURSIVE destroyBack(_, _, _)
\* while (nextExcluded.previousSibling !== prevIncluded) destroy(...)
destroyBack(w, p, n) ==
  IF w.err \/ previousSibling(w, n) = p THEN w
  ELSE destroyBack(destroy(w, previousSibling(w, n), TRUE), p, n)

RECURSIVE destroyTail(_, _)
\* while (parent.lastChild !== prevIncluded) destroy(parent.lastChild)
destroyTail(w, p) ==
  IF w.err \/ lastChild(w) = p THEN w
  ELSE destroyTail(destroy(w, lastChild(w), TRUE), p)

RECURSIVE destroyForward(_, _)
\* detached first node: walk the sibling links forward
destroyForward(w, p) ==
  IF w.err \/ p = Undef THEN w
  ELSE LET nx == nextSibling(w, p) IN destroyForward(destroy(w, p, TRUE), nx)

destroyRange(w, p, n) ==
  IF w.err THEN w
  ELSE IF p = Undef \/ n = p THEN w
  ELSE IF n = Undef THEN
         IF Attached(w, p) THEN destroy(destroyTail(w, p), p, TRUE)
         ELSE destroyForward(w, p)
  ELSE destroy(destroyBack(w, p, n), p, TRUE)

\* ---------------------------------------------------------------- observable array
\* Values held by lists that are not rendered: numbers are Txt(n), strings of
\* decimal digits are Str(<<d1, ..., dk>>).
Str(ds) == [t |-> "str", n |-> 0, a |-> ds]
Lst(l) == [t |-> "list", n |-> l, a |-> <<>>]
UndefV == [t |-> "undef", n |-> 0, a |-> <<>>]

RECURSIVE Digits(_)
\* String(n) for a non-negative integer
Digits(n) == IF n < 10 THEN <<n>> ELSE Append(Digits(n \div 10), n % 10)

RECURSIVE Parse(_)
\* Number(s) for a string of decimal digits
Parse(ds) == IF Len(ds) = 0 THEN 0
             ELSE 10 * Parse(SubSeq(ds, 1, Len(ds) - 1)) + ds[Len(ds)]

\* an argument that was not passed, and one passed as `undefined`
Absent == -1
UndefArg == -2

NoArgs == [i |-> 0, v |-> Nil, start |-> Absent, dc |-> Absent, end |-> Absent, items |-> <<>>]

Reverse(s) == [i \in 1..Len(s) |-> s[Len(s) + 1 - i]]

Min(a, b) == IF a < b THEN a ELSE b
Max(a, b) == IF a < b THEN b ELSE a

\* Array.prototype[p].apply(this.data, arguments) for non-negative indices
Native(data, p, a) ==
  LET len == Len(data) IN
  CASE p = "push" -> data \o a.items
    [] p = "pop" -> IF len = 0 THEN data ELSE SubSeq(data, 1, len - 1)
    [] p = "shift" -> IF len = 0 THEN data ELSE Tail(data)
    [] p = "unshift" -> a.items \o data
    [] p = "reverse" -> Reverse(data)
    [] p = "splice" ->
         LET st == Min(a.start, len)
             dc == IF a.dc = Absent THEN len - st
                   ELSE IF a.dc = UndefArg THEN 0
                   ELSE Min(Max(a.dc, 0), len - st) IN
         SubSeq(data, 1, st) \o a.items \o SubSeq(data, st + dc + 1, len)
    [] p = "fill" ->
         LET st == IF a.start = Absent THEN 0 ELSE Min(a.start, len)
             en == IF a.end = Absent THEN len ELSE Min(a.end, len) IN
         [k \in 1..len |-> IF k > st /\ k <= en THEN a.v ELSE data[k]]

\* `this.data[p] = value` for 0 <= p <= length
Store(data, p, v) == IF p = Len(data) THEN Append(data, v) ELSE [data EXCEPT ![p + 1] = v]

\* `array[p] = v` on a plain array for any p >= 0: a write past the end
\* leaves empty slots before it
Assign(data, p, v) ==
  IF p < Len(data) THEN [data EXCEPT ![p + 1] = v]
  ELSE data \o [k \in 1..(p - Len(data)) |-> UndefV] \o <<v>>

\* the indexed [[Set]] operations Array.prototype[p] performs on its receiver,
\* in order, for a dense array; deletions and the write of `length` are not
\* among them
Writes(data, p, a) ==
  LET len == Len(data)
      n == Len(a.items) IN
  CASE p = "push" -> [k \in 1..n |-> [i |-> len + k - 1, v |-> a.items[k]]]
    [] p = "pop" -> <<>>
    [] p = "shift" -> [k \in 1..(len - 1) |-> [i |-> k - 1, v |-> data[k + 1]]]
    [] p = "unshift" ->
         IF n = 0 THEN <<>>
         ELSE [m \in 1..len |-> [i |-> len - m + n, v |-> data[len - m + 1]]]
              \o [j \in 1..n |-> [i |-> j - 1, v |-> a.items[j]]]
    [] p = "reverse" ->
         [m \in 1..(2 * (len \div 2)) |->
            LET lower == (m + 1) \div 2 - 1 IN
            IF m % 2 = 1 THEN [i |-> lower, v |-> data[len - lower]]
            ELSE [i |-> len - lower - 1, v |-> data[lower + 1]]]
    [] p = "splice" ->
         LET st == Min(a.start, len)
             dc == IF a.dc = Absent THEN len - st
                   ELSE IF a.dc = UndefArg THEN 0
                   ELSE Min(Max(a.dc, 0), len - st)
             moved == len - dc - st IN
         (IF n < dc THEN [m \in 1..moved |-> [i |-> st + m - 1 + n, v |-> data[st + m + dc]]]
          ELSE IF n > dc
          THEN [m \in 1..moved |-> [i |-> len - dc - m + n, v |-> data[len - m + 1]]]
          ELSE <<>>)
         \o [j \in 1..n |-> [i |-> st + j - 1, v |-> a.items[j]]]
    [] p = "fill" ->
         LET st == IF a.start = Absent THEN 0 ELSE Min(a.start, len)
             en == IF a.end = Absent THEN len ELSE Min(a.end, len) IN
         [k \in 1..Max(en - st, 0) |-> [i |-> st + k - 1, v |-> a.v]]

\* the length of the Array object built by `super(...data)`, read by
\* `target.length`: Array(n) for a single number makes n empty slots
ArrayLength(data) ==
  IF Len(data) = 1 /\ data[1].t = "txt" THEN data[1].n ELSE Len(data)

\* MutualRecursionLock.lock() and unlock()
lock(w, l) == [w EXCEPT !.locks[l] = TRUE]
unlock(w, l) == [w EXCEPT !.locks[l] = FALSE]

RECURSIVE setProperty(_, _, _, _, _)
RECURSIVE callMethod(_, _, _, _)
RECURSIVE observerCall(_, _, _, _, _)
RECURSIVE notifyObservers(_, _, _, _, _)
RECURSIVE mirrorFill(_, _, _, _, _, _)
RECURSIVE listRender(_, _, _, _)

\* ---------------------------------------------------------------- renderer
RECURSIVE r(_, _, _, _, _)
RECURSIVE rArray(_, _, _, _, _)
RECURSIVE renderChild(_, _, _)

\* subscriptions.push(entry)
Own(w, kind, n) == [w EXCEPT !.owned = Append(@, [k |-> kind, n |-> n])]

\* DestroyableElementSubscription.attach: an element that has a
\* `subscriptions` array gets an entry in the owner's `subscriptions`
attach(w, n) == IF w.nodes[n].hsub THEN Own(w, "el", n) ELSE w

\* the literal fallback of r: insert the node before next[0], set prev[0]
rLiteral(w, v, prev, next) ==
  LET w1 == IF v.t = "el" THEN w ELSE NewNode(w, v.n, FALSE)
      nd == IF v.t = "el" THEN v.n ELSE LastNode(w1)
      w2 == insertBefore(w1, nd, w1.cell[next]) IN
  IF w2.err THEN w2 ELSE attach(SetCell(w2, prev, nd), nd)

\* the array branch of r: members in reverse index order
rArray(w, a, i, prev, next) ==
  IF w.err THEN w
  ELSE IF i > 1 THEN
         LET w1 == NewCell(w)
             childPrev == LastCell(w1) IN
         Then(r(w1, a[i], childPrev, next, TRUE), LAMBDA w2 :
              rArray(w2, a, i - 1, prev,
                     IF w2.cell[childPrev] # Undef THEN childPrev ELSE next))
  ELSE r(w, a[1], prev, next, TRUE)

\* the observer's `next` of one subscription made by r: destroy what the
\* previous emission rendered, render the new value, remember whether it
\* rendered anything
renderChild(w, k, v) ==
  IF w.err THEN w
  ELSE LET s == w.subs[k] IN
       Then(r(IF s.had
              THEN Then(destroyRange(w, w.cell[s.prev], w.cell[s.next]),
                        LAMBDA d : SetCell(d, s.prev, Undef))
              ELSE w,
              v, s.prev, s.next, FALSE),
            LAMBDA w2 :
              LET had == w2.cell[s.prev] # Undef
                  w3 == [w2 EXCEPT !.subs[k].had = had] IN
              IF had THEN w3 ELSE SetCell(w3, s.prev, w3.cell[s.next]))

\* the observable branch of r with observe = true: subscribe to a subject,
\* which delivers its current value at once and then registers the observer
\* `reg` tells whether the subscription is an entry of `subscriptions`
subscribe(w, o, prev, next) ==
  LET w1 == [w EXCEPT !.subs = Append(@, [o |-> o, prev |-> prev, next |-> next,
                                          had |-> TRUE, live |-> FALSE, reg |-> FALSE])]
      k == Len(w.subs) + 1 IN
  Then(renderChild(w1, k, w.cur[o]),
       LAMBDA w2 : Own([w2 EXCEPT !.subs[k].live = TRUE, !.subs[k].reg = TRUE], "sub", k))

\* the observer's `complete` once `subscription` is initialised: the
\* subscription is spliced out of `subscriptions` if it is there
complete(w, k) ==
  [w EXCEPT !.subs[k].reg = FALSE,
            !.owned = SelectSeq(@, LAMBDA e : e # [k |-> "sub", n |-> k])]

\* the observable branch of r for a Constant: Constant.subscribe calls
\* observer.next(value) and then observer.complete() before it returns, so
\* complete reads `subscription` while `const subscription = obs.subscribe(..)`
\* is still being evaluated
constantSubscribe(w, v, prev, next) ==
  LET w1 == [w EXCEPT !.subs = Append(@, [o |-> 0, prev |-> prev, next |-> next,
                                          had |-> TRUE, live |-> FALSE, reg |-> FALSE])]
      k == Len(w.subs) + 1 IN
  Then(renderChild(w1, k, v), LAMBDA w2 : IF w2.tdz THEN Throw(w2) ELSE w2)

r(w, v, prev, next, observe) ==
  IF w.err THEN w
  ELSE IF v.t = "nil" \/ v.t = "undef" THEN w
  ELSE IF v.t = "obs" THEN
         IF observe THEN subscribe(w, v.n, prev, next) ELSE w
  ELSE IF v.t = "const" THEN
         IF observe THEN constantSubscribe(w, v.a[1], prev, next) ELSE w
  ELSE IF v.t = "done" THEN
         \* subscribe returns undefined at once, and r pushes what it returned
         IF observe THEN Own(w, "undef", 0) ELSE w
  ELSE IF v.t = "list" THEN listRender(w, v.n, prev, next)
  ELSE IF v.t = "arr" THEN
         IF Len(v.a) = 0 THEN w ELSE rArray(w, v.a, Len(v.a), prev, next)
  ELSE rLiteral(w, v, prev, next)

\* render(parent, node, subscriptions): r(node, [undefined], [undefined], true)
render(w, v) ==
  LET w1 == NewCell(w)
      w2 == NewCell(w1) IN
  r(w2, v, LastCell(w1), LastCell(w2), TRUE)

\* ---------------------------------------------------------------- list rendering
\* renderedNodes[i], or 0 where JavaScript reads undefined
RnAt(w, i) == IF i >= 0 /\ i < Len(w.rn) THEN w.rn[i + 1] ELSE 0

\* Array.prototype.splice on renderedNodes
JsSplice(s, start, dc, items) ==
  LET st == Min(Max(start, 0), Len(s))
      d == Min(Max(dc, 0), Len(s) - st) IN
  SubSeq(s, 1, st) \o items \o SubSeq(s, st + d + 1, Len(s))

RECURSIVE spliceLoop(_, _, _, _, _)
\* `for (let i = items.length - 1; i > 0; i--)` of the splice handler
spliceLoop(w, items, i, next, gen) ==
  IF w.err \/ i <= 1 THEN [w |-> w, next |-> next, gen |-> gen]
  ELSE LET w1 == NewCell(w)
           newPrev == LastCell(w1) IN
       spliceLoop(r(w1, items[i], newPrev, next, TRUE), items, i - 1, newPrev,
                  <<newPrev>> \o gen)

\* the rendering observer's splice
renderSplice(w, start, dcArg, items) ==
  IF w.err THEN w
  ELSE IF start < 0 THEN Throw(w)
  ELSE LET dc == IF dcArg \in {Absent, UndefArg} THEN Len(w.rn) - start ELSE dcArg
           prev == IF RnAt(w, start) # 0 THEN RnAt(w, start) ELSE w.fp
           next == IF RnAt(w, start + dc) # 0 THEN RnAt(w, start + dc) ELSE w.ln IN
       Then(IF dc > 0 THEN destroyRange(w, w.cell[prev], w.cell[next]) ELSE w,
            LAMBDA w1 :
              IF Len(items) = 0 THEN w1
              ELSE Let(spliceLoop(w1, items, Len(items), next, <<>>), LAMBDA g :
                     Then(r(g.w, items[1], prev, g.next, TRUE), LAMBDA w2 :
                       [w2 EXCEPT !.rn = JsSplice(@, start, dc, <<prev>> \o g.gen)])))

\* the rendering observer's set
renderSet(w, i, v) ==
  IF w.err THEN w
  ELSE IF RnAt(w, i) = 0 THEN
         LET w1 == IF i = 0 THEN w ELSE NewCell(w)
             prev == IF i = 0 THEN w.fp ELSE LastCell(w1)
             pad == [k \in 1..(i + 1) |-> IF k <= Len(w.rn) THEN w.rn[k]
                                            ELSE IF k = i + 1 THEN prev ELSE 0] IN
         r([w1 EXCEPT !.rn = pad], v, prev, w.ln, TRUE)
  ELSE LET prev == RnAt(w, i)
           next == IF RnAt(w, i + 1) # 0 THEN RnAt(w, i + 1) ELSE w.ln IN
       Then(destroyRange(w, w.cell[prev], w.cell[next]), LAMBDA w1 :
            IF v.t = "undef" THEN [w1 EXCEPT !.rn[i + 1] = next]
            ELSE r(w1, v, prev, next, TRUE))

\* the rendering observer's pop
renderPop(w) ==
  IF w.err THEN w
  ELSE IF Len(w.rn) = 0 \/ w.rn[Len(w.rn)] = 0 THEN Throw(w)
  ELSE LET prev == IF RnAt(w, Len(w.rn) - 2) # 0 THEN RnAt(w, Len(w.rn) - 2) ELSE w.fp
           next == w.rn[Len(w.rn)]
           w1 == [w EXCEPT !.rn = SubSeq(@, 1, Len(@) - 1)]
           w2 == SetCell(w1, prev, w1.cell[next]) IN
       destroyRange(w2, w2.cell[next], Undef)

\* the rendering observer's shift
renderShift(w) ==
  IF w.err THEN w
  ELSE IF Len(w.rn) = 0 \/ w.rn[1] = 0 THEN Throw(w)
  ELSE LET next == w.rn[1]
           w1 == [w EXCEPT !.rn = Tail(@)] IN
       Then(destroyRange(w1, w1.cell[w.fp], w1.cell[next]), LAMBDA w2 :
            SetCell(w2, w.fp, w2.cell[next]))

\* a reverse handler that leaves the nodes where they are
moveBack_stay(w, a, b) == w

RECURSIVE moveBack(_, _, _)
\* `while (a != b) { n = a; a = a.previousSibling; n.parentElement.insertBefore(n, undefined) }`
moveBack(w, a, b) ==
  IF w.err \/ a = b THEN w
  ELSE IF a = Undef \/ ~Attached(w, a) THEN Throw(w)
  ELSE LET pa == previousSibling(w, a) IN
       moveBack([w EXCEPT !.dom = Append(Without(@, a), a)], pa, b)

RECURSIVE reverseLoop(_, _)
\* `for (let i = 0; i < renderedNodes.length - 1; i++)` of the reverse handler
reverseLoop(w, i) ==
  IF w.err \/ i >= Len(w.rn) - 1 THEN w
  ELSE IF RnAt(w, i) = 0 \/ RnAt(w, i + 1) = 0 THEN Throw(w)
  ELSE reverseLoop(moveBack(w, w.cell[RnAt(w, i)], w.cell[RnAt(w, i + 1)]), i + 1)

\* the rendering observer's reverse
renderReverse(w) ==
  IF w.err \/ Len(w.rn) < 2 THEN w
  ELSE Then(reverseLoop([w EXCEPT !.rn = Reverse(@)], 0), LAMBDA w1 :
            IF w1.rn[Len(w1.rn)] = 0 THEN Throw(w1)
            ELSE moveBack(w1, w1.cell[w1.rn[Len(w1.rn)]], Undef))

\* ---------------------------------------------------------------- mirroring
\* the transform functions handed to sync
applyT(w, tf, v, i) ==
  CASE tf = "dbl" -> [w |-> w, v |-> Txt(2 * v.n)]
    [] tf = "addi" -> [w |-> w, v |-> Txt(v.n + i)]
    [] tf = "str" -> [w |-> w, v |-> Str(Digits(v.n))]
    [] tf = "num" -> [w |-> w, v |-> Txt(Parse(v.a))]
    [] tf = "node" -> LET w1 == NewNode(w, v.n, FALSE) IN [w |-> w1, v |-> El(LastNode(w1))]
    \* n => { if (n >= 5) throw new Error(); return 2 * n }
    [] tf = "chk" -> IF v.n >= 5 THEN [w |-> Throw(w), v |-> v]
                     ELSE [w |-> w, v |-> Txt(2 * v.n)]

\* one invocation of observer k's transform, counted on the observer
transform(w, L, k, v, i) ==
  LET t == applyT(w, w.lists[L].obs[k].tf, v, i) IN
  [w |-> [t.w EXCEPT !.lists[L].obs[k].calls = @ + 1], v |-> t.v]

RECURSIVE mapItems(_, _, _, _, _, _)
\* items.map(transform): the index handed to transform is the index in items
mapItems(w, L, k, items, j, acc) ==
  IF w.err \/ j > Len(items) THEN [w |-> w, vs |-> acc]
  ELSE Let(transform(w, L, k, items[j], j - 1), LAMBDA t :
           mapItems(t.w, L, k, items, j + 1, Append(acc, t.v)))

\* `for (let i = start; i < end; i++) target.setProperty(i, transform(value, i))`
mirrorFill(w, L, k, v, i, end) ==
  IF w.err \/ i >= end THEN w
  ELSE Let(transform(w, L, k, v, i), LAMBDA t :
           mirrorFill(setProperty(t.w, w.lists[L].obs[k].target, i, t.v, FALSE),
                      L, k, v, i + 1, end))

\* a set handler that forwards the assigned value without transforming it
mirrorSet_raw(w, L, k, a) ==
  setProperty(w, w.lists[L].obs[k].target, a.i, a.v, FALSE)

\* the mirror's set handler once it holds the lock
mirrorSet(w, L, k, a) ==
  Let(transform(w, L, k, a.v, a.i), LAMBDA t :
      setProperty(t.w, w.lists[L].obs[k].target, a.i, t.v, FALSE))

\* the mirroring observer made by ObservableArrayImpl.mirror
mirrorCall(w, L, k, p, a) ==
  LET ob == w.lists[L].obs[k]
      w1 == [lock(w, ob.lock) EXCEPT !.lists[L].obs[k].runs = @ + 1] IN
  IF w.locks[ob.lock] THEN [w EXCEPT !.lists[L].obs[k].blocked = @ + 1]
  ELSE Then(CASE p = "set" -> mirrorSet(w1, L, k, a)
              [] p \in {"push", "unshift"} ->
                   Let(mapItems(w1, L, k, a.items, 1, <<>>), LAMBDA m :
                       callMethod(m.w, ob.target, p, [a EXCEPT !.items = m.vs]))
              [] p = "splice" ->
                   Let(mapItems(w1, L, k, a.items, 1, <<>>), LAMBDA m :
                       callMethod(m.w, ob.target, p,
                                  [a EXCEPT !.items = m.vs,
                                            !.dc = IF @ = Absent THEN UndefArg ELSE @]))
              [] p \in {"pop", "shift", "reverse"} ->
                   callMethod(w1, ob.target, p, NoArgs)
              [] p = "fill" ->
                   mirrorFill(w1, L, k, a.v,
                              IF a.start = Absent THEN 0 ELSE a.start,
                              IF a.end = Absent THEN w1.lists[ob.target].alen ELSE a.end),
            LAMBDA w2 : unlock(w2, ob.lock))

\* the handler `observer[p]` of a rendering observer
renderCall(w, p, a) ==
  CASE p = "set" -> renderSet(w, a.i, a.v)
    [] p = "splice" -> renderSplice(w, a.start, a.dc, a.items)
    [] p = "pop" -> renderPop(w)
    [] p = "shift" -> renderShift(w)
    [] p = "push" -> renderSplice(w, Len(w.rn), 0, a.items)
    [] p = "unshift" -> renderSplice(w, 0, 0, a.items)
    [] p = "reverse" -> renderReverse(w)

\* an observer that declares only `set` and applies what it is told to its
\* own copy of the contents
Setter(data) ==
  [k |-> "setter", target |-> 0, tf |-> "", lock |-> 0,
   calls |-> 0, runs |-> 0, blocked |-> 0, copy |-> data]

setterSet(ob, i, v) == [ob EXCEPT !.copy = Assign(@, i, v), !.calls = @ + 1]

\* other observers, in the shape of Setter: "counter" declares a handler
\* for every operation, "once" does too and unsubscribes itself when first
\* called, "change" is the change$ subscription of a mapArray observable and
\* keeps in `copy` what f(this.array.data) last gave it
Watcher(kind) == [Setter(<<>>) EXCEPT !.k = kind]

\* the positions of the observers of one kind, in subscription order
Pick(obs, kind) == SelectSeq([k \in 1..Len(obs) |-> k], LAMBDA k : obs[k].k = kind)

\* observers.delete(observer) on an array instead of a Set: the entries
\* behind the removed one move up under the running iteration
unsubscribe_splice(w, L, k) ==
  [w EXCEPT !.lists[L].obs = SubSeq(@, 1, k - 1) \o SubSeq(@, k + 1, Len(@))]

\* the unsubscribe returned by observe: observers.delete(observer); a Set
\* under iteration drops the entry and keeps the others in place
unsubscribe(w, L, k) == [w EXCEPT !.lists[L].obs[k].k = "gone"]

\* observer k is being called: counted, and entered in the order of calls
Noted(w, L, k) ==
  [w EXCEPT !.lists[L].obs[k].calls = @ + 1, !.lists[L].log = Append(@, k)]

\* `cb(...arguments)` for an observer that defines the handler p; an
\* observer without it is left to the fallback
observerCall(w, L, k, p, a) ==
  IF w.err THEN w
  ELSE IF w.lists[L].obs[k].k = "render" THEN renderCall(w, p, a)
  ELSE IF w.lists[L].obs[k].k = "setter" THEN
         IF p = "set"
         THEN [w EXCEPT !.lists[L].obs[k] = setterSet(@, a.i, a.v),
                        !.lists[L].log = Append(@, k)]
         ELSE w
  ELSE IF w.lists[L].obs[k].k = "counter" THEN Noted(w, L, k)
  ELSE IF w.lists[L].obs[k].k = "once" THEN unsubscribe(Noted(w, L, k), L, k)
  ELSE IF w.lists[L].obs[k].k \in {"gone", "change"} THEN w
  ELSE mirrorCall(w, L, k, p, a)

\* `this.changeObservers.forEach(x => x.next([p, v]))`: each mapArray
\* subscription computes f(this.array.data) on the data as it is now
notifyChange(w, L) ==
  [w EXCEPT !.lists[L].obs =
              [k \in DOMAIN @ |-> IF @[k].k = "change"
                                  THEN [@[k] EXCEPT !.copy = w.lists[L].data, !.calls = @ + 1]
                                  ELSE @[k]],
            !.lists[L].log = @ \o Pick(w.lists[L].obs, "change")]

\* `fallbackObservers.forEach(x => x.set(pp, v))`
notifyFallback(w, L, i, v) ==
  [w EXCEPT !.lists[L].obs =
              [k \in DOMAIN @ |-> IF @[k].k = "setter" THEN setterSet(@[k], i, v) ELSE @[k]],
            !.lists[L].log = @ \o Pick(w.lists[L].obs, "setter")]

\* `for (const observer of this.observers)`
notifyObservers(w, L, k, p, a) ==
  IF w.err \/ k > Len(w.lists[L].obs) THEN w
  ELSE notifyObservers(observerCall(w, L, k, p, a), L, k + 1, p, a)

\* a setProperty whose rejection goes unnoticed by the caller
setProperty_silent(w, L, p, v, viaProxy) ==
  IF w.err THEN w
  ELSE IF p < 0 \/ p > Len(w.lists[L].data) THEN w
  ELSE Then(notifyObservers([w EXCEPT !.lists[L].muts = @ + 1, !.lists[L].recv = @ + 1],
                            L, 1, "set", [NoArgs EXCEPT !.i = p, !.v = v]),
            LAMBDA w1 : [w1 EXCEPT !.lists[L].data = Store(@, p, v)])

\* ObservableArrayImpl.setProperty for an integer index; a false result makes
\* the proxy's assignment throw, a direct call ignores it
setProperty(w, L, p, v, viaProxy) ==
  IF w.err THEN w
  ELSE IF p < 0 \/ p > Len(w.lists[L].data) THEN (IF viaProxy THEN Throw(w) ELSE w)
  ELSE Then(notifyObservers(notifyChange([w EXCEPT !.lists[L].muts = @ + 1,
                                                   !.lists[L].recv = @ + 1], L),
                            L, 1, "set", [NoArgs EXCEPT !.i = p, !.v = v]),
            LAMBDA w1 : [w1 EXCEPT !.lists[L].data = Store(@, p, v)])

RECURSIVE passWrites(_, _, _, _)
\* the `set` trap of the passthrough proxy for the indexed writes: the
\* fallback observers, then the change observers, then `data[p] = v`
passWrites(w, L, ws, j) ==
  IF j > Len(ws) THEN w
  ELSE passWrites([notifyChange(notifyFallback(w, L, ws[j].i, ws[j].v), L)
                     EXCEPT !.lists[L].data = Assign(@, ws[j].i, ws[j].v)],
                  L, ws, j + 1)

\* Array.prototype[p].apply(passthrough, arguments): the indexed writes reach
\* the fallback observers, a write of `length` reaches length$$
passthrough(w, L, p, a) ==
  LET d == w.lists[L].data
      w1 == passWrites(w, L, Writes(d, p, a), 1) IN
  [w1 EXCEPT !.lists[L].data = Native(d, p, a),
             !.lists[L].len = IF p \in {"reverse", "fill"} THEN @ ELSE Len(Native(d, p, a))]

\* the function getProperty returns for a mutating array method: the
\* observers that define a handler for it are called; with no fallback
\* and no change observer the method runs on the data and length$$ is
\* brought up to date
callMethod(w, L, p, a) ==
  IF w.err THEN w
  ELSE Then(notifyObservers([w EXCEPT !.lists[L].muts = @ + 1,
                                      !.lists[L].recv = @ + Len(a.items)],
                            L, 1, p, a),
            LAMBDA w1 :
              IF \E k \in DOMAIN w1.lists[L].obs : w1.lists[L].obs[k].k \in {"setter", "change"}
              THEN passthrough(w1, L, p, a)
              ELSE [w1 EXCEPT !.lists[L].data = Native(@, p, a),
                              !.lists[L].len = Len(Native(w1.lists[L].data, p, a))])

\* the function getProperty returns for a mutating method of a list derived
\* without an inverse: the native method runs on getReadonlyView(this.data),
\* whose `set` trap throws; deletions are not trapped, so what the method
\* deletes before its first write is gone (an empty slot) when it throws
readonlyCall(w, L, p, a) ==
  LET d == w.lists[L].data
      kept == Len(Native(d, p, a)) IN
  IF Writes(d, p, a) # <<>> THEN Throw(w)
  ELSE IF p \in {"reverse", "fill"} THEN w
  ELSE Throw([w EXCEPT !.lists[L].data = [k \in 1..Len(d) |-> IF k > kept THEN UndefV ELSE d[k]]])

\* setProperty for `length`: the data is cut or extended, length$$ emits
setLength(w, L, n) ==
  [w EXCEPT !.lists[L].data = IF n <= Len(@) THEN SubSeq(@, 1, n)
                              ELSE @ \o [k \in 1..(n - Len(@)) |-> UndefV],
            !.lists[L].len = n]

\* ObservableArrayImpl.swap: two assignments through the proxy
swap(w, L, a, b) ==
  setProperty(setProperty(w, L, a, w.lists[L].data[b + 1], TRUE),
              L, b, w.lists[L].data[a + 1], TRUE)

\* ObservableArrayImpl.render: observe(..., true) delivers the contents as one push
listRender(w, L, prev, next) ==
  LET ob == [k |-> "render", target |-> 0, tf |-> "", lock |-> 0,
             calls |-> 0, runs |-> 0, blocked |-> 0]
      w1 == [w EXCEPT !.fp = prev, !.ln = next, !.rn = <<>>,
                      !.lists[L].obs = Append(@, ob)] IN
  renderSplice(w1, 0, 0, w1.lists[L].data)

Mirror(target, tf, l) ==
  [k |-> "mirror", target |-> target, tf |-> tf, lock |-> l,
   calls |-> 0, runs |-> 0, blocked |-> 0]

RECURSIVE mapData(_, _, _, _, _)
\* this.data.map(f)
mapData(w, tf, data, j, acc) ==
  IF j > Len(data) THEN [w |-> w, vs |-> acc]
  ELSE Let(applyT(w, tf, data[j], j - 1), LAMBDA t :
           mapData(t.w, tf, data, j + 1, Append(acc, t.v)))

NewList(data, obs) ==
  [data |-> data, obs |-> obs, alen |-> ArrayLength(data), muts |-> 0, recv |-> 0,
   len |-> Len(data), log |-> <<>>]

\* L.sync(f, g): the derived list, the lock shared by both mirrors, the
\* mirror from the source and, with an inverse g, the mirror back
sync(w, L, f, g) ==
  LET d == Len(w.lists) + 1
      l == Len(w.locks) + 1
      back == IF g = "" THEN <<>> ELSE <<Mirror(L, g, l)>> IN
  Let(mapData(w, f, w.lists[L].data, 1, <<>>), LAMBDA m :
      [m.w EXCEPT !.locks = Append(@, FALSE),
                  !.lists = Append([@ EXCEPT ![L].obs = Append(@, Mirror(d, f, l))],
                                   NewList(m.vs, back))])

\* ---------------------------------------------------------------- views
\* what a child looks like from outside: its identity for an element, its
\* text for a text node
Label(w, n) == IF w.nodes[n].text = -1 THEN <<"el", n>> ELSE <<"txt", w.nodes[n].text>>
Labels(w) == [i \in 1..Len(w.dom) |-> Label(w, w.dom[i])]

RECURSIVE Leaves(_)
\* the non-empty leaves of a value in depth-first index order
Leaves(v) ==
  IF v.t = "nil" THEN <<>>
  ELSE IF v.t = "arr" THEN
         IF Len(v.a) = 0 THEN <<>>
         ELSE Leaves(v.a[1]) \o Leaves(Arr(Tail(v.a)))
  ELSE <<v>>

LeafLabel(v) == IF v.t = "el" THEN <<"el", v.n>> ELSE <<"txt", v.n>>
LeafLabels(v) == LET l == Leaves(v) IN [i \in 1..Len(l) |-> LeafLabel(l[i])]

RECURSIVE HasNil(_)
HasNil(v) == \/ v.t = "nil"
             \/ v.t = "arr" /\ \E i \in 1..Len(v.a) : HasNil(v.a[i])

RECURSIVE Depth(_)
Depth(v) == IF v.t # "arr" THEN 0
            ELSE 1 + (IF Len(v.a) = 0 THEN 0
                      ELSE LET ds == {Depth(v.a[i]) : i \in 1..Len(v.a)} IN
                           CHOOSE d \in ds : \A e \in ds : e <= d)

\* ---------------------------------------------------------------- inputs
SeqsUpTo(S, n) == UNION {[1..k -> S] : k \in 0..n}

Literals == {El(n) : n \in 1..NumEl} \cup {Txt(p) : p \in Prims}
Members == Literals \cup {Nil}
DeepArrays == {Arr(s) : s \in SeqsUpTo(Members, MaxDeep)}
InnerArrays == {Arr(s) : s \in SeqsUpTo(Members \cup DeepArrays, MaxInner)}
OuterArrays == {Arr(s) : s \in SeqsUpTo(Members \cup InnerArrays, MaxWidth)}

\* a DOM element exists once: a Sequence names each element at most once
ElsOf(v) == LET l == Leaves(v) IN {i \in 1..Len(l) : l[i].t = "el"}
DistinctEls(v) ==
  LET l == Leaves(v) IN \A i, j \in ElsOf(v) : l[i].n = l[j].n => i = j

\* two more elements serve as static siblings of reactive content
StaticA == NumEl + 1
StaticB == NumEl + 2

\* the elements that exist before rendering; element 1 was created by h and
\* carries a `subscriptions` array, the others are plain DOM elements
\* h(tag, props): `disposeImplicitly: !props || !props.noimplicitdispose` is
\* stored on the element next to `subscriptions`
h(noimplicitdispose) ==
  [n \in 1..(NumEl + 2) |->
     [text |-> -1, hsub |-> (n = 1), fired |-> 0, dcalls |-> 0,
      disposeImplicitly |-> (n = 1 /\ ~noimplicitdispose)]]

InitNodes == h(FALSE)

\* the latest call on a list and the methods called so far
\* ---------------------------------------------------------------- subjects, compute, combine
MaxVal == 2        \* subject values are 1..MaxVal
MaxObs == 2        \* observers that may subscribe to each derived observable
MaxHeld == 2       \* subscriptions an observable may come to hold on one dependency

\* the non-observable value a computation may hand to $
PlainK == 1

SubjVals == 1..MaxVal

\* an observer of a derived observable: whether it is in `observers`, how many
\* values the latest call delivered to it, the last value delivered, and
\* whether every value of the latest call equalled the subjects' values then
NoObserver == [live |-> FALSE, n |-> 0, lastv |-> <<>>, ok |-> TRUE]

\* compute($ => $(a) + $(b)): the first run of the computation fills
\* `dependencies` with the subjects' values and yields the initial value
\* with `plain` the computation is $ => $(a) + $(b) + $(PlainK): on this first
\* run $ returns a dependency that is not observable as it is
\* `held[j]` counts the entries of `subscriptions` made on dependency j
compute(v, plain) ==
  [deps |-> v, value |-> v[1] + v[2] + (IF plain THEN PlainK ELSE 0), plain |-> plain,
   held |-> <<0, 0>>, obs |-> [k \in 1..MaxObs |-> NoObserver]]

\* new CombineObservable([x, y])
combine ==
  [values |-> <<Undef, Undef>>, wired |-> FALSE, obs |-> [k \in 1..MaxObs |-> NoObserver]]

\* a.map(mapF): new Mapper(a, mapF)
mapF(x) == x + 10
Mapper == [wired |-> FALSE, obs |-> [k \in 1..MaxObs |-> NoObserver]]

RxIdle == [v |-> <<1, 1>>, comp |-> compute(<<1, 1>>, FALSE), comb |-> combine,
           mapper |-> Mapper, err |-> FALSE]

\* the function x => ... handed to subscribe(): one more call with value x
Delivered(o, x, now) ==
  [o EXCEPT !.n = @ + 1, !.lastv = x, !.ok = @ /\ x = now]

\* BuiltinObservable.next: every observer in the set is called with the value
observableNext(obs, x, now) ==
  [k \in DOMAIN obs |-> IF obs[k].live THEN Delivered(obs[k], x, now) ELSE obs[k]]

\* the callback subscribeToDependencies registers on dependency j, recomputing
\* from the values stored before the new one is
computeDependency_stale(q, j, x) ==
  IF x = q.comp.deps[j] THEN q
  ELSE [q EXCEPT !.comp.deps[j] = x,
                 !.comp.value = q.comp.deps[1] + q.comp.deps[2],
                 !.comp.obs = observableNext(@, q.comp.deps[1] + q.comp.deps[2], q.v[1] + q.v[2])]
\* the callback ComputeObservable.subscribeToDependencies registers on
\* dependency j; the $ of a re-evaluation is
\* `dep => this.dependencies.get(dep[ObservableSymbol]())`, which calls
\* undefined when dep is not observable
computeDependency(q, j, x) ==
  IF q.err \/ x = q.comp.deps[j] THEN q
  ELSE LET deps == [q.comp.deps EXCEPT ![j] = x] IN
       IF q.comp.plain THEN [q EXCEPT !.comp.deps = deps, !.err = TRUE]
       ELSE [q EXCEPT !.comp.deps = deps,
                      !.comp.value = deps[1] + deps[2],
                      !.comp.obs = observableNext(@, deps[1] + deps[2], q.v[1] + q.v[2])]

RECURSIVE subscribeToDependencies(_, _)
\* `for (const dep of this.dependencies.keys()) this.subscriptions.push(dep.subscribe(...))`:
\* a subject calls the new callback with its value, then registers it
subscribeToDependencies(q, j) ==
  IF q.err \/ j > 2 THEN q
  ELSE LET q1 == computeDependency(q, j, q.v[j]) IN
       IF q1.err THEN q1
       ELSE subscribeToDependencies([q1 EXCEPT !.comp.held[j] = @ + 1], j + 1)

RECURSIVE callbacks(_, _, _, _)
\* the subject's loop over its observers, for the n callbacks the compute
\* observable registered on it
callbacks(q, j, x, n) ==
  IF n = 0 THEN q ELSE callbacks(computeDependency(q, j, x), j, x, n - 1)

\* the callback CombineObservable.subscribeToDependencies registers on observable j
combineDependency(q, j, x) ==
  LET values == [q.comb.values EXCEPT ![j] = x] IN
  [q EXCEPT !.comb.values = values,
            !.comb.obs = IF Undef \in {values[1], values[2]} THEN @
                         ELSE observableNext(@, values, q.v)]

Live(obs) == {k \in DOMAIN obs : obs[k].live}

\* the observer Mapper.subscribeToDependencies registers on its source:
\* `next: v => this.next(this.map(v))`
mapperSource(q, x) ==
  [q EXCEPT !.mapper.obs = observableNext(@, mapF(x), mapF(q.v[1]))]

\* BuiltinObservable.subscribe on the Mapper: the observer is added and, when
\* it is the only one, the Mapper subscribes to its source, which calls the
\* registered observer with its value; nothing else calls the new observer
mapperSubscribe(q, k) ==
  LET q1 == [q EXCEPT !.mapper.obs[k].live = TRUE] IN
  IF Live(q1.mapper.obs) = {k}
  THEN [mapperSource(q1, q1.v[1]) EXCEPT !.mapper.wired = TRUE]
  ELSE q1

mapperUnsubscribe(q, k) ==
  LET q1 == [q EXCEPT !.mapper.obs[k].live = FALSE] IN
  IF q.mapper.obs[k].live /\ Live(q1.mapper.obs) = {}
  THEN [q1 EXCEPT !.mapper.wired = FALSE] ELSE q1

\* ComputeObservable.subscribe: BuiltinObservable.subscribe adds the observer and,
\* for the first one, subscribes to the dependencies (a subject calls a new
\* observer with its value at once); then the observer is called with this.value
\* `observers` is a Set: adding an observer it holds leaves its size as it was
computeSubscribe(q, k) ==
  LET q1 == [q EXCEPT !.comp.obs[k].live = TRUE]
      q2 == IF Live(q1.comp.obs) = {k} THEN subscribeToDependencies(q1, 1) ELSE q1 IN
  IF q2.err THEN q2
  ELSE [q2 EXCEPT !.comp.obs[k] = Delivered(@, q2.comp.value, q2.v[1] + q2.v[2])]

\* CombineObservable.subscribe is BuiltinObservable.subscribe alone
combineSubscribe(q, k) ==
  LET q1 == [q EXCEPT !.comb.obs[k].live = TRUE] IN
  IF Live(q1.comb.obs) = {k}
  THEN [combineDependency(combineDependency(q1, 1, q1.v[1]), 2, q1.v[2])
          EXCEPT !.comb.wired = TRUE]
  ELSE q1

\* DisposingSubscription.unsubscribe: the last observer to leave unsubscribes
\* the observable from its dependencies
computeUnsubscribe(q, k) ==
  LET q1 == [q EXCEPT !.comp.obs[k].live = FALSE] IN
  IF q.comp.obs[k].live /\ Live(q1.comp.obs) = {} THEN [q1 EXCEPT !.comp.held = <<0, 0>>] ELSE q1

combineUnsubscribe(q, k) ==
  LET q1 == [q EXCEPT !.comb.obs[k].live = FALSE] IN
  IF q.comb.obs[k].live /\ Live(q1.comb.obs) = {} THEN [q1 EXCEPT !.comb.wired = FALSE] ELSE q1

\* BuiltinSubject.observableNext(x) on subject j: nothing when the value is the same,
\* else the value is stored and the registered callbacks are called
subjectNext(q, j, x) ==
  IF q.v[j] = x THEN q
  ELSE LET q1 == [q EXCEPT !.v[j] = x]
           q2 == callbacks(q1, j, x, q1.comp.held[j])
           q3 == IF q2.comb.wired /\ ~q2.err THEN combineDependency(q2, j, x) ELSE q2 IN
       IF j = 1 /\ q3.mapper.wired /\ ~q3.err THEN mapperSource(q3, x) ELSE q3

\* the counters of the latest call start afresh with each call
Fresh(q) ==
  [q EXCEPT !.comp.obs = [k \in DOMAIN @ |-> [@[k] EXCEPT !.n = 0, !.ok = TRUE]],
            !.comb.obs = [k \in DOMAIN @ |-> [@[k] EXCEPT !.n = 0, !.ok = TRUE]],
            !.mapper.obs = [k \in DOMAIN @ |-> [@[k] EXCEPT !.n = 0, !.ok = TRUE]]]

NoOp == [p |-> "", on |-> 0, a |-> NoArgs, hist |-> {}]

InitWorld == [dom |-> <<>>, cell |-> <<>>, nodes |-> InitNodes, err |-> FALSE,
              subs |-> <<>>, cur |-> <<>>, lists |-> <<>>, locks |-> <<>>,
              rn |-> <<>>, fp |-> 0, ln |-> 0, tdz |-> FALSE, owned |-> <<>>]

\* no observable array takes part
NoLists ==
  /\ lists = <<>>
  /\ locks = <<>>
  /\ rn = <<>>
  /\ fp = 0
  /\ ln = 0
  /\ last = NoOp
  /\ dom0 = <<>>

\* ---------------------------------------------------------------- render spec
RenderInit ==
  /\ dom = <<>>
  /\ cell = <<>>
  /\ nodes = InitNodes
  /\ err = FALSE
  /\ subs = <<>>
  /\ cur = <<>>
  /\ NoLists
  /\ steps = 0
  /\ tdz = FALSE
  /\ owned = <<>>
  /\ rx = RxIdle
  /\ mounted = NotMounted
  /\ input \in {v \in OuterArrays : DistinctEls(v)}
  /\ pc = "start"

\* the variables a World holds
CommitWorld(w) ==
  /\ dom' = w.dom
  /\ cell' = w.cell
  /\ nodes' = w.nodes
  /\ err' = w.err
  /\ subs' = w.subs
  /\ cur' = w.cur
  /\ lists' = w.lists
  /\ locks' = w.locks
  /\ rn' = w.rn
  /\ fp' = w.fp
  /\ ln' = w.ln
  /\ tdz' = w.tdz
  /\ owned' = w.owned

Commit(w) ==
  /\ CommitWorld(w)
  /\ rx' = rx
  /\ mounted' = mounted

\* render(parent, input, subscriptions) on the empty container
Render ==
  /\ pc = "start"
  /\ LET w == render(World, input) IN Commit(w) /\ dom0' = w.dom
  /\ pc' = "done"
  /\ UNCHANGED <<input, steps, last>>

RenderNext == Render

SpecRender == RenderInit /\ [][RenderNext]_vars

\* ---------------------------------------------------------------- observable spec
\* one Observable Node, alone or between static siblings
ObsTemplates == {Arr(<<Obs(1)>>),
                 Arr(<<El(StaticA), Obs(1)>>),
                 Arr(<<Obs(1), El(StaticB)>>),
                 Arr(<<El(StaticA), Obs(1), El(StaticB)>>)}

EmitVals == {v \in Members \cup {Arr(s) : s \in SeqsUpTo(Members, MaxEmitLen)} :
               DistinctEls(v)}
InitVals == {Nil, Txt(7), Arr(<<Nil, El(1)>>)}

RECURSIVE Resolve(_, _)
\* the value with every observable replaced by its current value
Resolve(c, v) ==
  IF v.t = "obs" THEN c[v.n]
  ELSE IF v.t = "arr" THEN Arr([i \in 1..Len(v.a) |-> Resolve(c, v.a[i])])
  ELSE v

RECURSIVE notify(_, _, _, _)
\* BuiltinSubject: `for (const observer of this.observers) observer.next(v)`
notify(w, o, v, k) ==
  IF w.err \/ k > Len(w.subs) THEN w
  ELSE notify(IF w.subs[k].o = o /\ w.subs[k].live THEN renderChild(w, k, v) ELSE w,
              o, v, k + 1)

\* BuiltinSubject.next(v): identical values are not re-emitted; a Sequence is
\* a new array object each time
next(w, o, v) ==
  IF v.t # "arr" /\ v = w.cur[o] THEN w
  ELSE notify([w EXCEPT !.cur[o] = v], o, v, 1)

ObsInit ==
  /\ dom = <<>>
  /\ cell = <<>>
  /\ nodes \in {h(FALSE), h(TRUE)}
  /\ err = FALSE
  /\ subs = <<>>
  /\ cur \in [{1} -> InitVals]
  /\ NoLists
  /\ steps = 0
  /\ tdz = FALSE
  /\ owned = <<>>
  /\ rx = RxIdle
  /\ mounted = NotMounted
  /\ input \in ObsTemplates
  /\ pc = "start"

Emit ==
  /\ pc = "done"
  /\ ~err
  /\ steps < MaxEmits
  /\ \E o \in DOMAIN cur, v \in EmitVals :
       /\ v.t = "arr" \/ v # cur[o]
       /\ Commit(next(World, o, v))
  /\ steps' = steps + 1
  /\ UNCHANGED <<input, pc, last, dom0>>

ObsNext == Render \/ Emit

SpecObs == ObsInit /\ [][ObsNext]_vars

\* ---------------------------------------------------------------- streams spec
\* Two streams: siblings in one Sequence, one nested in the value of the
\* other, or one next to a Constant.
NestedTemplate == Arr(<<El(StaticA), Obs(1), El(StaticB)>>)
SiblingTemplates == {Arr(<<Obs(1), Obs(2)>>),
                     Arr(<<El(StaticA), Obs(1), Obs(2), El(StaticB)>>)}
ConstTemplates == {Arr(<<Const(Txt(7)), Obs(1)>>), Arr(<<Obs(1), Const(Txt(7))>>)}

\* what stream o emits: nothing, a text, its own element
StreamVals(o) == {Nil, Txt(7), El(o)}
\* values of stream 1 that hold stream 2
NestedVals == {Obs(2), Arr(<<Obs(2)>>)}

RECURSIVE Mentions(_, _)
\* whether the value holds observable o
Mentions(v, o) ==
  \/ v.t = "obs" /\ v.n = o
  \/ v.t = "arr" /\ \E i \in 1..Len(v.a) : Mentions(v.a[i], o)

RECURSIVE ResolveAll(_, _)
\* the value with every observable replaced, at any depth, by what it
\* currently holds
ResolveAll(c, v) ==
  IF v.t = "obs" THEN ResolveAll(c, c[v.n])
  ELSE IF v.t = "const" THEN v.a[1]
  ELSE IF v.t = "arr" THEN Arr([i \in 1..Len(v.a) |-> ResolveAll(c, v.a[i])])
  ELSE v

\* the stream completed: its observers were notified and dropped
Closed(o) == \E k \in 1..Len(subs) : subs[k].o = o /\ ~subs[k].live

StreamsInit ==
  /\ dom = <<>>
  /\ cell = <<>>
  /\ nodes = InitNodes
  /\ err = FALSE
  /\ subs = <<>>
  /\ input \in {NestedTemplate} \cup SiblingTemplates \cup ConstTemplates
  /\ cur \in [{1, 2} -> StreamVals(1) \cup StreamVals(2) \cup NestedVals]
  /\ cur[1] \in StreamVals(1) \cup (IF input = NestedTemplate THEN NestedVals ELSE {})
  /\ cur[2] \in StreamVals(2)
  /\ NoLists
  /\ steps = 0
  /\ tdz \in BOOLEAN
  /\ owned = <<>>
  /\ rx = RxIdle
  /\ mounted = NotMounted
  /\ pc = "start"

\* stream o emits v; only a stream that is no sibling of stream 2 emits
\* values holding stream 2
EmitAt ==
  /\ pc = "done"
  /\ ~err
  /\ steps < MaxEmits
  /\ \E o \in DOMAIN cur :
       \E v \in StreamVals(o) \cup (IF o = 1 /\ input = NestedTemplate THEN NestedVals ELSE {}) :
         /\ ~Closed(o)
         /\ v.t = "arr" \/ v # cur[o]
         /\ Commit(next(World, o, v))
         /\ last' = [NoOp EXCEPT !.p = "emit", !.on = o]
  /\ steps' = steps + 1
  /\ UNCHANGED <<input, pc, dom0>>

RECURSIVE completeAll(_, _, _)
\* `this.observers.forEach(x => x.complete()); this.observers.clear()`
completeAll(w, o, k) ==
  IF k > Len(w.subs) THEN w
  ELSE completeAll(IF w.subs[k].o = o /\ w.subs[k].live
                   THEN [complete(w, k) EXCEPT !.subs[k].live = FALSE]
                   ELSE w,
                   o, k + 1)

\* an observed stream completes some time after it was subscribed
Complete ==
  /\ pc = "done"
  /\ ~err
  /\ steps < MaxEmits
  /\ \E o \in DOMAIN cur :
       /\ \E k \in 1..Len(subs) : subs[k].o = o /\ subs[k].live
       /\ Commit(completeAll(World, o, 1))
       /\ last' = [NoOp EXCEPT !.p = "complete", !.on = o]
  /\ steps' = steps + 1
  /\ UNCHANGED <<input, pc, dom0>>

StreamsNext == Render \/ EmitAt \/ Complete

SpecStreams == StreamsInit /\ [][StreamsNext]_vars

\* ---------------------------------------------------------------- sync spec
\* A = observableArray(...a0), B = A.sync(f), C = A.sync(String, Number)
ListA == 1
ListB == 2
ListC == 3

InitA == {<<>>, <<Txt(1), Txt(3)>>, <<Txt(12)>>}
ValsA == {Txt(5)}
ValsC == {Str(<<9>>)}

\* the static elements rendered next to a list
Statics == IF input.t = "arr" THEN {x \in Range(input.a) : x.t = "el"} ELSE {}

\* the elements a rendered list of elements can still take
FreeEls == {El(n) : n \in 1..(NumEl + 2)} \ (Range(lists[ListA].data) \cup Statics)

\* the values the application stores: strings in C, elements in a list of
\* elements that is rendered itself, numbers otherwise
ValsOf(L) == IF L = ListC THEN ValsC
             ELSE IF Len(lists) = 1 THEN FreeEls
             ELSE ValsA

SyncWorld(a0, f) ==
  LET w0 == [InitWorld EXCEPT !.lists = <<NewList(a0, <<>>)>>]
      w1 == sync(w0, ListA, f, "") IN
  sync(w1, ListA, "str", "num")

SyncInit ==
  /\ \E a0 \in InitA, f \in {"dbl", "addi"} :
       LET w == SyncWorld(a0, f) IN
       /\ lists = w.lists
       /\ locks = w.locks
       /\ nodes = w.nodes
  /\ dom = <<>>
  /\ cell = <<>>
  /\ err = FALSE
  /\ subs = <<>>
  /\ cur = <<>>
  /\ rn = <<>>
  /\ fp = 0
  /\ ln = 0
  /\ last = NoOp
  /\ dom0 = <<>>
  /\ input = Nil
  /\ pc = "done"
  /\ steps = 0
  /\ tdz = FALSE
  /\ owned = <<>>
  /\ rx = RxIdle
  /\ mounted = NotMounted

\* the counters describe the latest call only; a set-only observer starts
\* the call with a copy of the contents
ResetCounters(w) ==
  [w EXCEPT !.lists = [L \in DOMAIN @ |->
     [@[L] EXCEPT !.muts = 0, !.recv = 0, !.log = <<>>,
                  !.obs = [k \in DOMAIN @ |->
                             IF @[k].k = "setter"
                             THEN [@[k] EXCEPT !.calls = 0, !.copy = w.lists[L].data]
                             ELSE [@[k] EXCEPT !.calls = 0, !.runs = 0, !.blocked = 0]]]]]

\* the lists the application mutates
Mutable == IF Len(lists) = 3 THEN {ListA, ListC} ELSE {ListA}

Ready == pc = "done" /\ ~err /\ steps < MaxOps

Did(w, p, L, a) ==
  /\ Commit(w)
  /\ last' = [p |-> p, on |-> L, a |-> a, hist |-> last.hist \cup {p}]
  /\ steps' = steps + 1
  /\ UNCHANGED <<input, pc, dom0>>

\* list[i] = v, an append at i = length included
SetIndex ==
  /\ Ready
  /\ \E L \in Mutable : \E v \in ValsOf(L), i \in 0..Len(lists[L].data) :
       /\ i < MaxLen
       /\ Did(setProperty(ResetCounters(World), L, i, v, TRUE), "set", L,
              [NoArgs EXCEPT !.i = i, !.v = v])

ItemSeqs(L) == UNION {[1..n -> ValsOf(L)] : n \in 1..MaxItems}

Push ==
  /\ Ready
  /\ \E L \in Mutable : \E items \in ItemSeqs(L) :
       /\ Len(lists[L].data) + Len(items) <= MaxLen
       /\ LET a == [NoArgs EXCEPT !.items = items] IN
          Did(callMethod(ResetCounters(World), L, "push", a), "push", L, a)

Unshift ==
  /\ Ready
  /\ \E L \in Mutable : \E items \in ItemSeqs(L) :
       /\ Len(lists[L].data) + Len(items) <= MaxLen
       /\ LET a == [NoArgs EXCEPT !.items = items] IN
          Did(callMethod(ResetCounters(World), L, "unshift", a), "unshift", L, a)

Pop ==
  /\ Ready
  /\ \E L \in Mutable :
       Did(callMethod(ResetCounters(World), L, "pop", NoArgs), "pop", L, NoArgs)

Shift ==
  /\ Ready
  /\ \E L \in Mutable :
       Did(callMethod(ResetCounters(World), L, "shift", NoArgs), "shift", L, NoArgs)

ReverseList ==
  /\ Ready
  /\ \E L \in Mutable :
       Did(callMethod(ResetCounters(World), L, "reverse", NoArgs), "reverse", L, NoArgs)

\* splice(start), splice(start, deleteCount) and splice(start, deleteCount, item)
Splice ==
  /\ Ready
  /\ \E L \in Mutable : \E start \in 0..Len(lists[L].data), dc \in {Absent, 0, 1},
                           items \in {<<>>} \cup ItemSeqs(L) :
       /\ Len(lists[L].data) + Len(items) <= MaxLen
       /\ dc = Absent => items = <<>>
       /\ LET a == [NoArgs EXCEPT !.start = start, !.dc = dc, !.items = items] IN
          Did(callMethod(ResetCounters(World), L, "splice", a), "splice", L, a)

\* fill(value), fill(value, start) and fill(value, start, end)
Fill ==
  /\ Ready
  /\ \E L \in Mutable : \E v \in ValsOf(L), start \in {Absent, 0, 1},
                           end \in {Absent, Len(lists[L].data)} :
       /\ start = Absent => end = Absent
       /\ start # Absent => start <= Len(lists[L].data)
       /\ LET a == [NoArgs EXCEPT !.v = v, !.start = start, !.end = end] IN
          Did(callMethod(ResetCounters(World), L, "fill", a), "fill", L, a)

SyncNext == SetIndex \/ Push \/ Unshift \/ Pop \/ Shift \/ ReverseList \/ Splice \/ Fill

SpecSync == SyncInit /\ [][SyncNext]_vars

\* ---------------------------------------------------------------- throwing transform spec
\* A = observableArray(...a0), B = A.sync(n => { if (n >= 5) throw ...; return 2 * n });
\* the application mutates A inside try { ... } catch { }
ChkVals == {Txt(1), Txt(5)}

ThrowInit ==
  /\ \E a0 \in {<<>>, <<Txt(1)>>, <<Txt(1), Txt(3)>>} :
       LET w == sync([InitWorld EXCEPT !.lists = <<NewList(a0, <<>>)>>], ListA, "chk", "") IN
       /\ lists = w.lists
       /\ locks = w.locks
       /\ nodes = w.nodes
  /\ dom = <<>>
  /\ cell = <<>>
  /\ err = FALSE
  /\ subs = <<>>
  /\ cur = <<>>
  /\ rn = <<>>
  /\ fp = 0
  /\ ln = 0
  /\ last = NoOp
  /\ dom0 = <<>>
  /\ input = Nil
  /\ pc = "done"
  /\ steps = 0
  /\ tdz = FALSE
  /\ owned = <<>>
  /\ rx = RxIdle
  /\ mounted = NotMounted

\* the call threw and the application caught the exception
Caught(w, p, a) ==
  /\ Commit([w EXCEPT !.err = FALSE])
  /\ last' = [p |-> p, on |-> ListA, a |-> a,
              hist |-> IF w.err THEN {"throw"} ELSE last.hist \ {"throw"}]
  /\ steps' = steps + 1
  /\ UNCHANGED <<input, pc, dom0>>

\* try { A[i] = v } catch { }
TrySet ==
  /\ steps < MaxOps + 1
  /\ \E v \in ChkVals, i \in 0..Len(lists[ListA].data) :
       /\ i < MaxLen
       /\ LET a == [NoArgs EXCEPT !.i = i, !.v = v] IN
          Caught(setProperty(ResetCounters(World), ListA, i, v, TRUE), "set", a)

\* try { A.push(v) } catch { }
TryPush ==
  /\ steps < MaxOps + 1
  /\ \E v \in ChkVals :
       /\ Len(lists[ListA].data) < MaxLen
       /\ LET a == [NoArgs EXCEPT !.items = <<v>>] IN
          Caught(callMethod(ResetCounters(World), ListA, "push", a), "push", a)

\* try { A.pop() } catch { }
TryPop ==
  /\ steps < MaxOps + 1
  /\ Caught(callMethod(ResetCounters(World), ListA, "pop", NoArgs), "pop", NoArgs)

ThrowNext == TrySet \/ TryPush \/ TryPop

SpecThrow == ThrowInit /\ [][ThrowNext]_vars

\* ---------------------------------------------------------------- derived list spec
\* The application mutates B = A.sync(f), derived without an inverse.
DerivedSet ==
  /\ Ready
  /\ \E v \in ValsA, i \in 0..Len(lists[ListB].data) :
       /\ i < MaxLen
       /\ Did(setProperty(ResetCounters(World), ListB, i, v, TRUE), "set", ListB,
              [NoArgs EXCEPT !.i = i, !.v = v])

DerivedCall ==
  /\ Ready
  /\ \E p \in {"push", "pop", "shift", "unshift", "splice", "reverse"} :
       \E items \in (IF p \in {"push", "unshift"} THEN {} ELSE {<<>>}) \cup ItemSeqs(ListB),
          start \in 0..Len(lists[ListB].data), dc \in {Absent, 1} :
         /\ p # "splice" => start = 0 /\ dc = Absent
         /\ p \in {"pop", "shift", "reverse"} => items = <<>>
         /\ LET a == [NoArgs EXCEPT !.start = IF p = "splice" THEN start ELSE Absent,
                                    !.dc = dc, !.items = items] IN
            Did(readonlyCall(ResetCounters(World), ListB, p, a), p, ListB, a)

DerivedNext == DerivedSet \/ DerivedCall \/ SetIndex

SpecDerived == SyncInit /\ [][DerivedNext]_vars

\* ---------------------------------------------------------------- list spec
\* An observable list of elements (and empty items) rendered as content,
\* alone or next to a static sibling.
ListTemplates(L) == {Lst(L),
                     Arr(<<El(StaticA), Lst(L)>>),
                     Arr(<<Lst(L), El(StaticB)>>)}

InitL == {s \in SeqsUpTo({El(n) : n \in 1..NumEl} \cup {Nil}, MaxLen) : DistinctEls(Arr(s))}

ListInit ==
  /\ \E a0 \in InitL : lists = <<NewList(a0, <<>>)>>
  /\ locks = <<>>
  /\ nodes = InitNodes
  /\ input \in ListTemplates(ListA)
  /\ dom = <<>>
  /\ cell = <<>>
  /\ err = FALSE
  /\ subs = <<>>
  /\ cur = <<>>
  /\ rn = <<>>
  /\ fp = 0
  /\ ln = 0
  /\ last = NoOp
  /\ dom0 = <<>>
  /\ pc = "start"
  /\ steps = 0
  /\ tdz = FALSE
  /\ owned = <<>>
  /\ rx = RxIdle
  /\ mounted = NotMounted

\* list.swap(a, b)
SwapEls ==
  /\ Ready
  /\ \E a, b \in 0..(Len(lists[ListA].data) - 1) :
       /\ a # b
       /\ Did(swap(ResetCounters(World), ListA, a, b), "swap", ListA,
              [NoArgs EXCEPT !.i = a, !.start = b])

ListNext ==
  Render \/ SetIndex \/ Push \/ Unshift \/ Pop \/ Shift \/ ReverseList \/ Splice \/ SwapEls

SpecList == ListInit /\ [][ListNext]_vars

\* ---------------------------------------------------------------- span list spec
\* An observable list whose items are elements and Sequences of two elements,
\* so that one item materializes as a span of several nodes.
SpanEls == 1..StaticB
Spans == {El(n) : n \in SpanEls} \cup
         {Arr(<<El(m), El(n)>>) : m, n \in SpanEls}

InitSpans == {s \in SeqsUpTo(Spans, MaxLen) : DistinctEls(Arr(s))}

SpanInit ==
  /\ \E a0 \in InitSpans : lists = <<NewList(a0, <<>>)>>
  /\ locks = <<>>
  /\ nodes = InitNodes
  /\ input = Lst(ListA)
  /\ dom = <<>>
  /\ cell = <<>>
  /\ err = FALSE
  /\ subs = <<>>
  /\ cur = <<>>
  /\ rn = <<>>
  /\ fp = 0
  /\ ln = 0
  /\ last = NoOp
  /\ dom0 = <<>>
  /\ pc = "start"
  /\ steps = 0
  /\ tdz = FALSE
  /\ owned = <<>>
  /\ rx = RxIdle
  /\ mounted = NotMounted

SpanNext == Render \/ ReverseList \/ Pop \/ Shift

SpecSpan == SpanInit /\ [][SpanNext]_vars

\* ---------------------------------------------------------------- synced list spec
\* observableArray(1, ..., k).sync((n, i) => textNode(n)) rendered alone in
\* the container; the application mutates the list of numbers
InitN == {[i \in 1..k |-> Txt(i)] : k \in 0..MaxLen}

SyncListInit ==
  /\ \E a0 \in InitN :
       LET w == sync([InitWorld EXCEPT !.lists = <<NewList(a0, <<>>)>>],
                     ListA, "node", "") IN
       /\ lists = w.lists
       /\ locks = w.locks
       /\ nodes = w.nodes
  /\ input = Lst(ListB)
  /\ dom = <<>>
  /\ cell = <<>>
  /\ err = FALSE
  /\ subs = <<>>
  /\ cur = <<>>
  /\ rn = <<>>
  /\ fp = 0
  /\ ln = 0
  /\ last = NoOp
  /\ dom0 = <<>>
  /\ pc = "start"
  /\ steps = 0
  /\ tdz = FALSE
  /\ owned = <<>>
  /\ rx = RxIdle
  /\ mounted = NotMounted

SyncListNext ==
  Render \/ SetIndex \/ Push \/ Unshift \/ Pop \/ Shift \/ ReverseList \/ Splice \/ SwapEls

SpecSyncList == SyncListInit /\ [][SyncListNext]_vars

\* ---------------------------------------------------------------- plain list spec
\* One observable list of elements that is neither rendered nor mirrored,
\* with no observer or with one observer that declares only `set`.
InitP == {[i \in 1..n |-> El(i)] : n \in 0..MaxLen}

PlainInit ==
  /\ \E d \in InitP : \E o \in {<<>>, <<Setter(d)>>} : lists = <<NewList(d, o)>>
  /\ locks = <<>>
  /\ nodes = InitNodes
  /\ input = Nil
  /\ dom = <<>>
  /\ cell = <<>>
  /\ err = FALSE
  /\ subs = <<>>
  /\ cur = <<>>
  /\ rn = <<>>
  /\ fp = 0
  /\ ln = 0
  /\ last = NoOp
  /\ dom0 = <<>>
  /\ pc = "done"
  /\ steps = 0
  /\ tdz = FALSE
  /\ owned = <<>>
  /\ rx = RxIdle
  /\ mounted = NotMounted

\* list[i] = v with i = -1 or i = length + 1
SetOutOfRange ==
  /\ Ready
  /\ \E L \in Mutable : \E v \in ValsOf(L), i \in {-1, Len(lists[L].data) + 1} :
       Did(setProperty(ResetCounters(World), L, i, v, TRUE), "set", L,
           [NoArgs EXCEPT !.i = i, !.v = v])

\* list.length = n
SetLength ==
  /\ Ready
  /\ \E L \in Mutable : \E n \in 0..MaxLen :
       Did(setLength(ResetCounters(World), L, n), "length", L, [NoArgs EXCEPT !.i = n])

PlainNext ==
  \/ SetIndex \/ SetOutOfRange \/ SetLength
  \/ Push \/ Unshift \/ Pop \/ Shift \/ ReverseList \/ Splice \/ Fill

SpecPlain == PlainInit /\ [][PlainNext]_vars

\* index assignments only
IndexNext == SetIndex \/ SetOutOfRange

SpecIndex == PlainInit /\ [][IndexNext]_vars

\* ---------------------------------------------------------------- observers specs
\* One observable list of elements and the observers subscribed to it, in
\* subscription order.
UnsubLineUps == {<<Watcher("once"), Watcher("counter")>>,
                 <<Watcher("counter"), Watcher("once")>>,
                 <<Watcher("counter"), Watcher("once"), Watcher("counter")>>,
                 <<Watcher("once"), Watcher("once"), Watcher("counter")>>}

MixedLineUps == {<<Watcher("setter"), Watcher("counter")>>,
                 <<Watcher("counter"), Watcher("setter")>>,
                 <<Watcher("counter"), Watcher("change")>>,
                 <<Watcher("change"), Watcher("counter")>>,
                 <<Watcher("setter"), Watcher("change")>>,
                 <<Watcher("change")>>}

WatchedInit(lineups) ==
  /\ \E d \in InitP, o \in lineups : lists = <<NewList(d, o)>>
  /\ locks = <<>>
  /\ nodes = InitNodes
  /\ input = Nil
  /\ dom = <<>>
  /\ cell = <<>>
  /\ err = FALSE
  /\ subs = <<>>
  /\ cur = <<>>
  /\ rn = <<>>
  /\ fp = 0
  /\ ln = 0
  /\ last = NoOp
  /\ dom0 = <<>>
  /\ pc = "done"
  /\ steps = 0
  /\ tdz = FALSE
  /\ owned = <<>>
  /\ rx = RxIdle
  /\ mounted = NotMounted

UnsubNext == SetIndex \/ Push \/ Pop

UnsubInit == WatchedInit(UnsubLineUps)

SpecUnsub == UnsubInit /\ [][UnsubNext]_vars

WatchNext == SetIndex \/ Push \/ Unshift \/ Pop \/ Shift \/ Splice

WatchInit == WatchedInit(MixedLineUps)

SpecWatch == WatchInit /\ [][WatchNext]_vars

\* ---------------------------------------------------------------- destroy spec
\* A container of elements, some of them created by h, whose nodes are torn
\* down by element.destroy(dispose) and by destroyRange.
DestroyInit ==
  /\ dom = [n \in 1..(NumEl + 2) |-> n]
  /\ \E byH \in [1..(NumEl + 2) -> BOOLEAN] :
       nodes = [n \in 1..(NumEl + 2) |->
                  [text |-> -1, hsub |-> byH[n], fired |-> 0, dcalls |-> 0,
                   disposeImplicitly |-> byH[n]]]
  /\ cell = <<>>
  /\ err = FALSE
  /\ subs = <<>>
  /\ cur = <<>>
  /\ NoLists
  /\ input = Nil
  /\ pc = "done"
  /\ steps = 0
  /\ tdz = FALSE
  /\ owned = <<>>
  /\ rx = RxIdle
  /\ mounted = NotMounted

\* element.destroy(dispose) of an element created by h
ElementDestroy ==
  /\ Ready
  /\ \E n \in 1..Len(nodes), dispose \in BOOLEAN :
       /\ nodes[n].hsub
       /\ Commit(destroy(World, n, dispose))
  /\ last' = [NoOp EXCEPT !.p = "destroy"]
  /\ steps' = steps + 1
  /\ UNCHANGED <<input, pc, dom0>>

\* destroyRange(prevIncluded, nextExcluded) on a range of the container:
\* nextExcluded follows prevIncluded or is undefined
DestroyRange ==
  /\ Ready
  /\ \E i \in 1..Len(dom), j \in 1..(Len(dom) + 1) :
       /\ i < j
       /\ Commit(destroyRange(World, dom[i], IF j > Len(dom) THEN Undef ELSE dom[j]))
  /\ last' = [NoOp EXCEPT !.p = "destroyRange"]
  /\ steps' = steps + 1
  /\ UNCHANGED <<input, pc, dom0>>

\* destroyRange(prevIncluded, nextExcluded) through a stale reference: the
\* first node was detached and torn down by an earlier call, nextExcluded is
\* a node still in the container or undefined
DestroyDetached ==
  /\ Ready
  /\ \E p \in 1..Len(nodes), j \in 1..(Len(dom) + 1) :
       /\ ~Attached(World, p)
       /\ nodes[p].dcalls > 0
       /\ Commit(destroyRange(World, p, IF j > Len(dom) THEN Undef ELSE dom[j]))
       /\ last' = [NoOp EXCEPT !.p = "destroyDetached",
                              !.on = IF j > Len(dom) THEN Undef ELSE dom[j]]
  /\ steps' = steps + 1
  /\ UNCHANGED <<input, pc, dom0>>

DestroyNext == ElementDestroy \/ DestroyRange \/ DestroyDetached

SpecDestroy == DestroyInit /\ [][DestroyNext]_vars

\* ---------------------------------------------------------------- claims

NoDuplicates(s) == \A i, j \in 1..Len(s) : s[i] = s[j] => i = j

\* C1: rendering a Sequence of N literal values, nested to any depth, into an
\* empty container yields exactly N children in depth-first input order, the
\* same children as rendering the flattened Sequence.
C1_RoundTrip ==
  (pc = "done" /\ ~HasNil(input)) =>
     /\ ~err
     /\ Len(dom) = Len(Leaves(input))
     /\ NoDuplicates(dom)
     /\ Labels(World) = LeafLabels(input)
     /\ Labels(World) = Labels(render(InitWorld, Arr(Leaves(input))))

C1_Witness ==
  /\ pc = "done"
  /\ ~HasNil(input)
  /\ Depth(input) = 3
  /\ Len(dom) = 3

\* C2: after any number of emissions of literals, Empty and Sequences, the
\* nodes rendered for an Observable Node are exactly the nodes of its latest
\* value: the container holds the static siblings and that value's leaves.
C2_NoLeak ==
  (pc = "done" /\ input \in ObsTemplates) =>
     /\ ~err
     /\ Labels(World) = LeafLabels(Resolve(cur, input))


DataA == lists[ListA].data
DataB == lists[ListB].data
DataC == lists[ListC].data

\* the transform B was derived with
TransformB == lists[ListA].obs[1].tf

\* C5: immediately after a mutating operation on A returns, the derived list
\* B = A.sync(f) has the length of A and B[i] = f(A[i], i) at every index.
C5_Derived ==
  (Len(lists) = 3 /\ last.on = ListA) =>
     /\ ~err
     /\ Len(DataB) = Len(DataA)
     /\ \A i \in 1..Len(DataA) : DataB[i] = applyT(World, TransformB, DataA[i], i - 1).v

\* C6: an index assignment C[i] = s on the two-way derived list stores
\* Number(s) in the source A and f(Number(s), i) in every other list derived
\* from A; with A = [1,3], f doubling and C[1] = '9': A[1] = 9 and B[1] = 18.
C6_TwoWay ==
  [][(/\ Len(lists) = 3
      /\ steps' = steps + 1
      /\ last'.p = "set" /\ last'.on = ListC
      /\ Len(DataA) = Len(DataC) /\ Len(DataB) = Len(DataC))
     => LET i == last'.a.i
            n == Txt(Parse(last'.a.v.a)) IN
        /\ ~err'
        /\ lists'[ListC].data[i + 1] = last'.a.v
        /\ lists'[ListA].data[i + 1] = n
        /\ lists'[ListB].data[i + 1] = applyT(World, TransformB, n, i).v]_vars

C6_Witness ==
  /\ Len(lists) = 3
  /\ steps = 1
  /\ last.p = "set" /\ last.on = ListC /\ last.a.i = 1 /\ last.a.v = Str(<<9>>)
  /\ TransformB = "dbl"
  /\ DataA = <<Txt(1), Txt(9)>>
  /\ DataB = <<Txt(2), Txt(18)>>
  /\ DataC = <<Str(<<1>>), Str(<<9>>)>>

\* the mirror installed on list L whose target is list T
MirrorTo(L, T) ==
  LET o == lists[L].obs IN o[CHOOSE k \in 1..Len(o) : o[k].k = "mirror" /\ o[k].target = T]

\* C7: in the two-way pair (A, C) one mutation on either side runs the mirror
\* towards the other side exactly once and the mirror back never (each
\* attempt is stopped by the lock); the propagating transform is invoked once
\* per value written to the other side, the opposite transform not at all.
C7_NoMirrorLoop ==
  (Len(lists) = 3 /\ last.on \in {ListA, ListC}) =>
     LET from == last.on
         to == IF from = ListA THEN ListC ELSE ListA
         fwd == MirrorTo(from, to)
         back == MirrorTo(to, from) IN
     /\ ~err
     /\ fwd.runs = 1 /\ fwd.blocked = 0
     /\ back.runs = 0 /\ back.calls = 0
     /\ back.blocked = lists[to].muts
     /\ fwd.calls = lists[to].recv
     /\ last.p # "fill" => lists[to].muts = 1

RECURSIVE ResolveLists(_, _)
\* the value with every list replaced by the Sequence of its elements
ResolveLists(ls, v) ==
  IF v.t = "list" THEN Arr(ls[v.n].data)
  ELSE IF v.t = "arr" THEN Arr([i \in 1..Len(v.a) |-> ResolveLists(ls, v.a[i])])
  ELSE v

\* the children the container should hold: the static siblings and the
\* nodes of the list's current elements in index order
ExpectedDom ==
  LET l == Leaves(ResolveLists(lists, input)) IN [i \in 1..Len(l) |-> l[i].n]

ListRendered == pc = "done" /\ input # Nil /\ steps >= 1

\* C3: after any sequence of index assignments, push, pop, shift, unshift
\* and splice calls on a rendered list, the container holds exactly the nodes
\* of the list's current elements, in index order.
C3_ListInSync ==
  (ListRendered /\ last.hist \subseteq {"set", "push", "pop", "shift", "unshift", "splice"}) =>
     /\ ~err
     /\ dom = ExpectedDom

\* C4: after a single assignment list[i] = v with 0 <= i < length on a
\* freshly rendered list, the document order of the list's nodes is the
\* index order of its elements.
C4_SetKeepsOrder ==
  [][(/\ pc = "done" /\ input # Nil /\ steps = 0 /\ steps' = 1
      /\ last'.p = "set" /\ last'.on = ListA
      /\ last'.a.i < Len(lists[ListA].data))
     => (~err' /\ dom' = ExpectedDom')]_vars

\* C9: swap(a, b) on a rendered list of elements exchanges the two elements
\* in the list and leaves the container in index order, holding the same
\* nodes as before, none of them torn down.
C9_SwapRelocates ==
  [][(/\ pc = "done" /\ input # Nil /\ Len(lists) = 1 /\ steps' = steps + 1
      /\ last'.p = "swap"
      /\ \A k \in 1..Len(lists[ListA].data) : lists[ListA].data[k].t = "el"
      /\ dom = ExpectedDom)
     => LET a == last'.a.i + 1
            b == last'.a.start + 1
            d == lists[ListA].data IN
        /\ ~err'
        /\ lists'[ListA].data = [d EXCEPT ![a] = d[b], ![b] = d[a]]
        /\ dom' = ExpectedDom'
        /\ nodes' = nodes]_vars

\* the text of the container's children in document order
Texts(d) == [i \in 1..Len(d) |-> nodes[d[i]].text]

\* C8: observableArray(1, 2, 3) rendered through sync((n, i) => textNode(n)):
\* after reverse() the container holds exactly three children with text
\* 3, 2, 1, the same three nodes as before in reverse order, none destroyed
\* and none created; the same for any length and any number of reverse() calls.
C8_ReverseKeepsNodes ==
  (ListRendered /\ input = Lst(ListB) /\ last.hist = {"reverse"}) =>
     /\ ~err
     /\ Len(dom) = Len(dom0)
     /\ dom = (IF steps % 2 = 1 THEN Reverse(dom0) ELSE dom0)
     /\ Texts(dom) = [i \in 1..Len(dom) |-> lists[ListA].data[i].n]
     /\ dom = ExpectedDom
     /\ Len(nodes) = Len(InitNodes) + Len(dom0)
     /\ \A n \in 1..Len(nodes) : nodes[n].dcalls = 0

C8_Witness ==
  /\ ListRendered /\ input = Lst(ListB) /\ last.p = "reverse" /\ steps = 1
  /\ Texts(dom0) = <<1, 2, 3>>
  /\ Texts(dom) = <<3, 2, 1>>
  /\ dom = Reverse(dom0)

\* C10: tearing down a range that holds a node whose teardown already ran
\* does not throw and does not fire that node's destroyed notification again.
C10_DestroyOnce ==
  [][(input = Nil /\ lists = <<>> /\ steps' = steps + 1 /\ last'.p = "destroyRange")
     => /\ ~err'
        /\ \A n \in 1..Len(nodes) :
             nodes[n].fired > 0 => nodes'[n].fired = nodes[n].fired]_vars

\* C11: destroying a range whose first node is already detached and torn
\* down raises no error, leaves the container as it was and fires no
\* destroyed notification, whether the excluded end is absent or attached.
C11_DetachedNoOp ==
  [][(input = Nil /\ lists = <<>> /\ steps' = steps + 1 /\ last'.p = "destroyDetached")
     => /\ ~err'
        /\ dom' = dom
        /\ \A n \in 1..Len(nodes) : nodes'[n].fired = nodes[n].fired]_vars

\* C12: when a render call returns having materialized at least one node,
\* the NodeRef `prev` it was given refers to the first materialized node in
\* document order (here the first child of the container, `next` being
\* undefined).
C12_PrevIsFirst ==
  (pc = "done" /\ input \in OuterArrays /\ Len(dom) > 0) =>
     /\ ~err
     /\ cell[1] = dom[1]

\* C13: a Sequence with Empty members and nested Sequences materializes its
\* non-empty leaves in depth-first index order, as if the Empty members were
\* absent.
C13_EmptySkipped ==
  (pc = "done" /\ input \in OuterArrays /\ HasNil(input)) =>
     /\ ~err
     /\ Labels(World) = LeafLabels(input)

\* C14: an Observable Node whose rendered range was destroyed by a re-render
\* of the enclosing Observable Node does nothing to the document when it
\* emits afterwards: no error, no node inserted, removed or torn down.
C14_StaleEmitInert ==
  [][(/\ input = NestedTemplate /\ steps' = steps + 1
      /\ last'.p = "emit" /\ last'.on = 2
      /\ ~Mentions(cur[1], 2))
     => (~err' /\ dom' = dom /\ nodes' = nodes)]_vars

\* C15: when an Observable Node emits a value that is itself an Observable
\* Node, the container holds what the emitted observable currently holds,
\* between the static siblings.
C15_EmittedObservable ==
  (pc = "done" /\ input = NestedTemplate /\ cur[1] = Obs(2)) =>
     /\ ~err
     /\ Labels(World) = LeafLabels(ResolveAll(cur, input))

\* C16: when a rendered stream completes, during subscribe or later, no
\* error is raised and the subscriptions collection holds no entry for a
\* subscription whose stream has completed.
C16_CompletedNotHeld ==
  [][(/\ input \in ConstTemplates
      /\ \/ pc = "start" /\ pc' = "done"
         \/ steps' = steps + 1 /\ last'.p = "complete")
     => /\ ~err'
        /\ \A k \in 1..Len(subs') : ~subs'[k].live => ~subs'[k].reg]_vars

\* C17: when the latest emission of an Observable Node rendered nothing, its
\* next non-empty emission lands between the content of its preceding and
\* of its following siblings, also after those siblings re-rendered.
C17_InsertAtOwnPosition ==
  [][(/\ input \in SiblingTemplates /\ steps' = steps + 1
      /\ last'.p = "emit"
      /\ \E k \in 1..Len(subs) : subs[k].o = last'.on /\ ~subs[k].had
      /\ cur'[last'.on] # Nil)
     => /\ ~err'
        /\ Labels(World)' = LeafLabels(ResolveAll(cur, input))']_vars

\* C18: an index assignment with index < 0 or index > length fails with an
\* error, leaves the backing storage as it was and notifies no observer; an
\* assignment at index = length succeeds and appends the value.
C18_IndexRange ==
  [][(/\ input = Nil /\ Len(lists) = 1 /\ steps' = steps + 1 /\ last'.p = "set")
     => LET i == last'.a.i
            d == lists[ListA].data IN
        /\ (i < 0 \/ i > Len(d)) =>
              /\ err'
              /\ lists'[ListA].data = d
              /\ \A k \in DOMAIN lists'[ListA].obs :
                    lists'[ListA].obs[k].calls = 0 /\ lists'[ListA].obs[k].copy = d
        /\ i = Len(d) =>
              /\ ~err'
              /\ lists'[ListA].data = Append(d, last'.a.v)]_vars

\* an assignment past the end was rejected, with a set-only observer watching
C18_Witness ==
  /\ input = Nil /\ Len(lists) = 1
  /\ last.p = "set"
  /\ last.a.i = Len(lists[ListA].data) + 1
  /\ err
  /\ Len(lists[ListA].obs) = 1

\* C19: after push, pop, shift, unshift, splice, reverse or fill, the copy
\* of the prior contents to which a set-only observer applied its
\* set(index, value) notifications in order equals the list's contents.
C19_SetReplay ==
  (/\ pc = "done" /\ input = Nil /\ Len(lists) = 1 /\ ~err
   /\ last.p \in {"push", "pop", "shift", "unshift", "splice", "reverse", "fill"})
  => \A k \in DOMAIN lists[ListA].obs : lists[ListA].obs[k].copy = lists[ListA].data

\* C20: right after an index assignment, a push, pop, shift, unshift or
\* splice, or an assignment to length, the value length$ last emitted is the
\* length of the backing storage.
C20_LengthEmitted ==
  (/\ pc = "done" /\ input = Nil /\ Len(lists) = 1 /\ ~err
   /\ last.p \in {"set", "push", "pop", "shift", "unshift", "splice", "length"})
  => lists[ListA].len = Len(lists[ListA].data)

\* C21: an index assignment or a mutating method call on a list derived
\* with sync(transform) alone raises no error and leaves the source list
\* unchanged.
C21_DerivedDrop ==
  [][(steps' = steps + 1 /\ Len(lists) = 3 /\ last'.on = ListB)
     => (~err' /\ lists'[ListA].data = lists[ListA].data)]_vars

C23_SubscriptionOrder ==
  (/\ pc = "done" /\ input = Nil /\ Len(lists) = 1 /\ ~err
   /\ last.p \in {"push", "splice", "set"})
  => LET log == lists[ListA].log IN
     \A i, j \in 1..Len(log) :
       (i < j /\ log[j] < log[i]) => \E m \in 1..(i - 1) : log[m] = log[j]

\* C29: after an index assignment, push, pop, shift, unshift or splice, every
\* subscriber of list.mapArray(f) has received f of the list's contents as
\* they are after the change.
C29_MapArrayFresh ==
  [][(/\ input = Nil /\ Len(lists) = 1 /\ steps' = steps + 1 /\ ~err'
      /\ lists'[ListA].data # lists[ListA].data)
     => \A k \in DOMAIN lists'[ListA].obs :
          lists'[ListA].obs[k].k = "change" =>
            /\ lists'[ListA].obs[k].calls > 0
            /\ lists'[ListA].obs[k].copy = lists'[ListA].data]_vars


\* ---------------------------------------------------------------- reactive spec
ReactiveInit ==
  /\ input = Nil
  /\ dom = <<>>
  /\ cell = <<>>
  /\ nodes = InitNodes
  /\ err = FALSE
  /\ subs = <<>>
  /\ cur = <<>>
  /\ NoLists
  /\ pc = "done"
  /\ steps = 0
  /\ tdz = FALSE
  /\ owned = <<>>
  /\ mounted = NotMounted
  /\ \E v \in SubjVals \X SubjVals :
       rx = [v |-> v, comp |-> compute(v, FALSE), comb |-> combine,
             mapper |-> Mapper, err |-> FALSE]

\* the same with a computation that also hands a non-observable value to $
MixedInit ==
  /\ input = Nil
  /\ dom = <<>>
  /\ cell = <<>>
  /\ nodes = InitNodes
  /\ err = FALSE
  /\ subs = <<>>
  /\ cur = <<>>
  /\ NoLists
  /\ pc = "done"
  /\ steps = 0
  /\ tdz = FALSE
  /\ owned = <<>>
  /\ mounted = NotMounted
  /\ \E v \in SubjVals \X SubjVals :
       rx = [v |-> v, comp |-> compute(v, TRUE), comb |-> combine,
             mapper |-> Mapper, err |-> FALSE]

Called(p, j, q) ==
  /\ ~err
  /\ rx' = q
  /\ err' = q.err
  /\ last' = [NoOp EXCEPT !.p = p, !.on = j]
  /\ UNCHANGED <<dom, cell, nodes, subs, cur, lists, locks, rn, fp, ln, dom0,
                 input, pc, steps, tdz, mounted, owned>>

\* a.next(x) or b.next(x)
SubjectNext ==
  \E j \in 1..2, x \in SubjVals :
    /\ pc = "done"
    /\ Called("next", j, subjectNext(Fresh(rx), j, x))

\* c.subscribe(observer k) on the compute observable
ComputeSubscribe ==
  \E k \in 1..MaxObs :
    /\ ~rx.comp.obs[k].live
    /\ Called("compute.subscribe", k, computeSubscribe(Fresh(rx), k))

ComputeUnsubscribe ==
  \E k \in 1..MaxObs :
    /\ rx.comp.obs[k].live
    /\ Called("compute.unsubscribe", k, computeUnsubscribe(Fresh(rx), k))

\* c.subscribe(observer k) with an observer that is subscribed already
ComputeSubscribeAgain ==
  \E k \in 1..MaxObs :
    /\ rx.comp.obs[k].live
    /\ \A j \in 1..2 : rx.comp.held[j] < MaxHeld
    /\ Called("compute.subscribe again", k, computeSubscribe(Fresh(rx), k))

\* combine(x, y).subscribe(observer k)
CombineSubscribe ==
  \E k \in 1..MaxObs :
    /\ ~rx.comb.obs[k].live
    /\ Called("combine.subscribe", k, combineSubscribe(Fresh(rx), k))

CombineUnsubscribe ==
  \E k \in 1..MaxObs :
    /\ rx.comb.obs[k].live
    /\ Called("combine.unsubscribe", k, combineUnsubscribe(Fresh(rx), k))

ComputeNext == SubjectNext \/ ComputeSubscribe \/ ComputeUnsubscribe \/ ComputeSubscribeAgain

\* the computation $ => $(a) + $(b) + $(PlainK)
SpecMixed == MixedInit /\ [][ComputeNext]_vars

SpecCompute == ReactiveInit /\ [][ComputeNext]_vars

\* a.map(mapF).subscribe(observer k)
MapperSubscribe ==
  \E k \in 1..MaxObs :
    /\ ~rx.mapper.obs[k].live
    /\ Called("mapper.subscribe", k, mapperSubscribe(Fresh(rx), k))

MapperUnsubscribe ==
  \E k \in 1..MaxObs :
    /\ rx.mapper.obs[k].live
    /\ Called("mapper.unsubscribe", k, mapperUnsubscribe(Fresh(rx), k))

MapperNext == SubjectNext \/ MapperSubscribe \/ MapperUnsubscribe

SpecMapper == ReactiveInit /\ [][MapperNext]_vars

CombineNext == SubjectNext \/ CombineSubscribe \/ CombineUnsubscribe

SpecCombine == ReactiveInit /\ [][CombineNext]_vars

\* C24: while the compute observable has subscribers, every value a next() on
\* a or b delivers to them is a.value + b.value as it is at that moment, and
\* the last value each subscriber received is the current sum.
C24_ComputeSum ==
  [][last'.p = "next" =>
       \A k \in 1..MaxObs :
         rx'.comp.obs[k].live =>
           /\ rx'.comp.obs[k].ok
           /\ rx'.comp.obs[k].lastv = rx'.v[1] + rx'.v[2]
           /\ (rx'.v # rx.v => rx'.comp.obs[k].n = 1)]_vars

C24_Witness ==
  /\ last.p = "next"
  /\ \E k \in 1..MaxObs : rx.comp.obs[k].live /\ rx.comp.obs[k].n = 1
  /\ rx.comp.deps # <<1, 1>>

\* C25: subscribing to the compute observable when it has no subscriber and a
\* dependency changed since it last had one delivers the up-to-date value to
\* the new subscriber exactly once.
C25_ResubscribeOnce ==
  [][(last'.p = "compute.subscribe" /\ rx.comp.deps # rx.v /\ Live(rx.comp.obs) = {})
       => \A k \in 1..MaxObs :
            rx'.comp.obs[k].live =>
              /\ rx'.comp.obs[k].n = 1
              /\ rx'.comp.obs[k].lastv = rx.v[1] + rx.v[2]]_vars

\* C26: every tuple delivered to a subscriber of combine(x, y) holds the
\* values x and y have at the moment of the delivery.
C26_CombineCurrent ==
  \A k \in 1..MaxObs : rx.comb.obs[k].ok

\* C27: an element created with noimplicitdispose is not disposed when a
\* re-render of the content it belongs to removes it.
C27_NoImplicitDispose ==
  \A n \in DOMAIN nodes :
    (nodes[n].hsub /\ ~nodes[n].disposeImplicitly) => nodes[n].fired = 0


\* ---------------------------------------------------------------- mount spec
RECURSIVE unsubscribeAll(_, _, _)
\* `for (...) subscriptions[i].unsubscribe()`: a subscription to a subject
\* removes the observer, a DestroyableElementSubscription destroys its
\* element, and an entry that is undefined has no unsubscribe to call
unsubscribeAll(w, es, i) ==
  IF w.err \/ i > Len(es) THEN w
  ELSE unsubscribeAll(CASE es[i].k = "undef" -> Throw(w)
                        [] es[i].k = "el" -> destroy(w, es[i].n, TRUE)
                        [] es[i].k = "sub" -> [w EXCEPT !.subs[es[i].n].live = FALSE],
                      es, i + 1)

\* no subscription is an entry of `subscriptions` any more
Emptied(w) ==
  [w EXCEPT !.owned = <<>>,
            !.subs = [k \in DOMAIN @ |-> [@[k] EXCEPT !.reg = FALSE]]]

\* destroy(owner) for the element whose children render() rendered:
\* `node.subscriptions.splice(0)`, then the loop over what was spliced out
disposeOwner(w) == unsubscribeAll(Emptied(w), w.owned, 1)

\* the children of the fresh div that are elements
ElementChildren(w) == SelectSeq(w.dom, LAMBDA n : w.nodes[n].text = -1)

\* the callback mount subscribes to the node: render the value into a fresh
\* div, require exactly one element, remember it in `rendered`, release the
\* subscriptions of that render; the div is dropped, el keeps its children
mountCallback(w, m, x) ==
  Let(render([w EXCEPT !.dom = <<>>, !.owned = <<>>], x), LAMBDA t :
    IF t.err THEN [w |-> [t EXCEPT !.dom = w.dom, !.owned = w.owned], m |-> m]
    ELSE IF Len(ElementChildren(t)) # 1
    THEN [w |-> Throw([t EXCEPT !.dom = w.dom, !.owned = w.owned]), m |-> m]
    ELSE [w |-> [unsubscribeAll(t, t.owned, 1) EXCEPT !.dom = w.dom, !.owned = w.owned],
          m |-> [m EXCEPT !.rendered = ElementChildren(t)[1]]])

\* mount(node, el): without el, render(el, node, subscriptions) and a
\* Subscription; with el, node[ObservableSymbol]().subscribe(callback) and
\* the element the callback remembered
mount(w, v, withEl) ==
  IF ~withEl
  THEN Let(render([w EXCEPT !.dom = NoParent], v), LAMBDA t :
         [w |-> t, m |-> [NotMounted EXCEPT !.ret = IF t.err THEN "" ELSE "Subscription"]])
  ELSE IF v.t # "obs" THEN [w |-> Throw(w), m |-> NotMounted]
  ELSE Let(mountCallback(w, NotMounted, w.cur[v.n]), LAMBDA c :
         IF c.w.err THEN c
         ELSE [w |-> c.w, m |-> [c.m EXCEPT !.ret = "Element", !.cb = TRUE]])

\* the nodes mount is called with
MountNodes == {Nil, El(1), Txt(7), Arr(<<El(1), El(2)>>), Obs(1),
               Arr(<<Obs(1)>>), Arr(<<Obs(1), El(2)>>), Arr(<<El(2), Obs(1)>>)}

MountInit ==
  /\ dom = <<>>
  /\ cell = <<>>
  /\ nodes = InitNodes
  /\ err = FALSE
  /\ subs = <<>>
  /\ cur \in [{1} -> InitVals \cup {El(1), El(2)}]
  /\ NoLists
  /\ steps = 0
  /\ tdz = FALSE
  /\ owned = <<>>
  /\ rx = RxIdle
  /\ mounted = NotMounted
  /\ input \in MountNodes
  /\ pc = "start"

Returned(t) ==
  /\ CommitWorld(t.w)
  /\ mounted' = t.m

\* mount(input) or mount(input, el) on an empty element el
Mount ==
  /\ pc = "start"
  /\ \E withEl \in BOOLEAN :
       /\ Returned(mount(World, input, withEl))
       /\ last' = [NoOp EXCEPT !.p = "mount", !.on = IF withEl THEN 1 ELSE 0]
  /\ pc' = "done"
  /\ UNCHANGED <<input, steps, dom0, rx>>

\* the node's subject emits: the callback of mount runs when it was
\* registered, the observers render registered otherwise
MountEmit ==
  /\ pc = "done"
  /\ ~err
  /\ steps < MaxEmits
  /\ \E o \in DOMAIN cur, v \in EmitVals :
       /\ v.t = "arr" \/ v # cur[o]
       /\ IF mounted.cb
          THEN Returned(mountCallback([World EXCEPT !.cur[o] = v], mounted, v))
          ELSE Returned([w |-> next(World, o, v), m |-> mounted])
       /\ last' = [NoOp EXCEPT !.p = "emit", !.on = o]
  /\ steps' = steps + 1
  /\ UNCHANGED <<input, pc, dom0, rx>>

\* unsubscribe() of the Subscription mount returned
MountUnsubscribe ==
  /\ pc = "done"
  /\ ~err
  /\ mounted.ret = "Subscription"
  /\ Returned([w |-> Then(unsubscribeAll(World, owned, 1), Emptied),
               m |-> [mounted EXCEPT !.ret = "unsubscribed"]])
  /\ last' = [NoOp EXCEPT !.p = "unsubscribe"]
  /\ UNCHANGED <<input, pc, steps, dom0, rx>>

MountNext == Mount \/ MountEmit \/ MountUnsubscribe

SpecMount == MountInit /\ [][MountNext]_vars

\* C28: mount(node, el) renders node as the child content of el and returns a
\* Subscription; mount(node) returns the single Element the node rendered.
C28_Mount ==
  [][(pc = "start" /\ pc' = "done") =>
       /\ last'.on = 1 =>
            /\ ~err'
            /\ mounted'.ret = "Subscription"
            /\ Labels(World)' = LeafLabels(Resolve(cur', input))
       /\ (last'.on = 0 /\ Len(Leaves(Resolve(cur, input))) = 1
             /\ Leaves(Resolve(cur, input))[1].t = "el") =>
            /\ ~err'
            /\ mounted'.ret = "Element"
            /\ mounted'.rendered = Leaves(Resolve(cur, input))[1].n]_vars


\* C30: a push, an unshift, an insertion-only splice or an index assignment on
\* a rendered list neither destroys nor detaches the nodes of the items at the
\* indices the call does not name.
C30_FrameKept ==
  [][(/\ pc = "done" /\ input # Nil /\ Len(lists) = 1 /\ steps' = steps + 1
      /\ dom = ExpectedDom
      /\ \/ last'.p \in {"push", "unshift", "set"}
         \/ last'.p = "splice" /\ last'.a.dc = 0
      /\ \A x \in Range(last'.a.items) \cup {last'.a.v} :
           x.t = "el" => x \notin Range(lists[ListA].data))
     => \A j \in 1..Len(lists[ListA].data) :
          (/\ lists[ListA].data[j].t = "el"
           /\ ~(last'.p = "set" /\ last'.a.i = j - 1))
          => /\ lists[ListA].data[j].n \in Range(dom')
             /\ nodes'[lists[ListA].data[j].n].dcalls = nodes[lists[ListA].data[j].n].dcalls]_vars


\* C31: a computation may hand a value that is not observable to $; $ returns
\* it as it is on the first evaluation and on every re-evaluation after a
\* dependency changed, and no error is raised.
C31_PlainOperand ==
  rx.comp.plain =>
    /\ ~err
    /\ \A k \in 1..MaxObs :
         rx.comp.obs[k].live => rx.comp.obs[k].lastv = rx.v[1] + rx.v[2] + PlainK

\* C40: the compute observable holds subscriptions to its dependencies exactly
\* while it has an observer, and one per dependency at most.
C40_OnePerDependency ==
  \A j \in 1..2 : rx.comp.held[j] = IF Live(rx.comp.obs) = {} THEN 0 ELSE 1


\* ---------------------------------------------------------------- owner spec
\* content of an element, some of it an observable that completed before
\* the render, and the element's destruction
DoneTemplates == {Arr(<<Done>>), Arr(<<El(StaticA), Done>>), Arr(<<Done, Obs(1)>>)}

OwnerInit ==
  /\ dom = <<>>
  /\ cell = <<>>
  /\ nodes = InitNodes
  /\ err = FALSE
  /\ subs = <<>>
  /\ cur \in [{1} -> InitVals]
  /\ NoLists
  /\ steps = 0
  /\ tdz = FALSE
  /\ owned = <<>>
  /\ rx = RxIdle
  /\ mounted = NotMounted
  /\ input \in ObsTemplates \cup DoneTemplates
  /\ pc = "start"

\* the owning element is destroyed: its subscriptions are released
Dispose ==
  /\ pc = "done"
  /\ ~err
  /\ last.p # "dispose"
  /\ Commit(disposeOwner(World))
  /\ last' = [NoOp EXCEPT !.p = "dispose"]
  /\ UNCHANGED <<input, pc, steps, dom0>>

OwnerNext == Render \/ Emit \/ Dispose

SpecOwner == OwnerInit /\ [][OwnerNext]_vars

\* C37: the owner's subscriptions collection does not grow with the
\* emissions of an Observable Node: it holds one entry per element that is
\* rendered now, the entries of destroyed emissions being removed.
C37_EntriesBounded ==
  pc = "done" =>
    \A i \in 1..Len(owned) :
      owned[i].k = "el" =>
        /\ owned[i].n \in Range(dom)
        /\ \A j \in 1..Len(owned) : owned[j] = owned[i] => j = i

\* C38: subscribe returns a disposer also for an observable that completed
\* already, so every entry of the owner's subscriptions can be unsubscribed
\* and destroying the owner raises no error.
C38_Disposer ==
  /\ \A i \in 1..Len(owned) : owned[i].k # "undef"
  /\ last.p = "dispose" => ~err


\* C39: every subscriber of a.map(f) receives f(a.value) during its
\* subscribe call, whether or not the mapped subject has other subscribers.
C39_MappedOnSubscribe ==
  [][last'.p = "mapper.subscribe" =>
       /\ rx'.mapper.obs[last'.on].n = 1
       /\ rx'.mapper.obs[last'.on].lastv = mapF(rx.v[1])]_vars


\* C32: after the rendering observer of a list handled a notification
\* without an error, renderedNodes has one entry per index of the list, the
\* entries at distinct indices are distinct cells, and the entry of an index
\* that holds an element refers to the node of that element.
C32_OnePositionPerIndex ==
  (ListRendered /\ ~err) =>
     /\ Len(rn) = Len(lists[ListA].data)
     /\ \A i \in 1..Len(rn) : rn[i] # 0
     /\ \A i, j \in 1..Len(rn) : i # j => rn[i] # rn[j]
     /\ \A i \in 1..Len(rn) :
          (i <= Len(lists[ListA].data) /\ lists[ListA].data[i].t = "el")
             => cell[rn[i]] = lists[ListA].data[i].n


\* C33: reverse() on a rendered list whose items materialize as spans of
\* several nodes reverses the order of the spans and keeps the order of the
\* nodes inside each span (12 34 56 becomes 56 34 12); no node is destroyed.
C33_ReverseSpans ==
  [][(/\ pc = "done" /\ steps' = steps + 1
      /\ last'.p = "reverse"
      /\ dom = ExpectedDom)
     => /\ ~err'
        /\ dom' = ExpectedDom'
        /\ nodes' = nodes]_vars


\* the nodes in the container that stream o did not render: the static
\* siblings and the element of the other stream
SiblingNodes(o) ==
  {n \in Range(dom) : n \in {StaticA, StaticB} \cup ({1, 2} \ {o})}

\* C34: when an Observable Node re-renders, the nodes of its siblings, static
\* or rendered by a sibling Observable Node that re-rendered or rendered
\* nothing in between, stay in the container and are not torn down.
C34_SiblingsKept ==
  [][(/\ input \in SiblingTemplates /\ steps' = steps + 1
      /\ last'.p = "emit")
     => \A n \in SiblingNodes(last'.on) :
          /\ n \in Range(dom')
          /\ nodes'[n].dcalls = nodes[n].dcalls]_vars


\* C35: an index assignment, push, pop, shift, unshift, splice or reverse on
\* a rendered list leaves the static siblings of the list in the container
\* and does not tear them down.
C35_StaticSiblingsKept ==
  [][(/\ pc = "done" /\ input \in ListTemplates(ListA) /\ steps' = steps + 1
      /\ last'.p \in {"set", "push", "pop", "shift", "unshift", "splice", "reverse"}
      /\ ~err')
     => \A n \in {StaticA, StaticB} \cap Range(dom) :
          /\ n \in Range(dom')
          /\ nodes'[n].dcalls = nodes[n].dcalls]_vars


\* C36: between two mutations of the source the lock of the synced pair is
\* unlocked, also after the transform threw during mirroring, and a later
\* mutation of the source that does not throw is mirrored to the derived list.
C36_LockReleased ==
  (Len(lists) = 2 /\ input = Nil /\ Len(locks) = 1 /\ lists[ListA].obs[1].tf = "chk") =>
     /\ ~locks[1]
     /\ "throw" \notin last.hist =>
          lists[ListB].data = [i \in 1..Len(DataA) |-> Txt(2 * DataA[i].n)]

====
